---- MODULE Spec2Model ----
(***************************************************************************)
(* Insurance policy AI assistant: the request handlers (api/*/route.py),   *)
(* the assistants (rag_system.py, streamlit_insurance_app.py), the client  *)
(* libraries (lib/*.py) and the ingestion scripts (kb_data_builder.py,     *)
(* setup_kb.py), with the external services (object storage, retrieval,    *)
(* generation, ingestion jobs) as a nondeterministic environment.          *)
(*                                                                         *)
(* A Python str is a sequence of tokens (a literal of the source is one    *)
(* token, "" is <<>>), so concatenation is \o and a slice is SubSeq.       *)
(* Each program of the repository is a separate process: app names the one *)
(* that runs.                                                              *)
(***************************************************************************)
EXTENDS Integers, Sequences, FiniteSets, TLC

(* ------------------------------ bounds --------------------------------- *)
\* length of the window of polling events that is remembered
MaxLog == 4
\* the status-fetch counter saturates here (the loops themselves are unbounded)
MaxCount == 3
\* most passages a retrieval response carries in the model
MaxDocs == 2
\* most pdf files in the local ./policy_docs directory
MaxFiles == 2
\* most turns kept in the conversation history of the model
MaxHistory == 2

(* --------------------------- Python values ----------------------------- *)
None == "None"
NoneText == <<"None">>
NoObject == <<>>

\* truth value of a str held as a TLA+ string (None or '' is false)
TruthyId(x) == x # None /\ x # ""
\* truth value of a str or list held as a sequence
TruthyText(x) == x # NoneText /\ x # <<>>

Get(d, k, default) == IF k \in DOMAIN d THEN d[k] ELSE default

Min(a, b) == IF a < b THEN a ELSE b

RECURSIVE Join(_, _)
\* sep.join(parts)
Join(sep, parts) ==
    IF parts = <<>> THEN <<>>
    ELSE IF Len(parts) = 1 THEN parts[1]
    ELSE parts[1] \o sep \o Join(sep, Tail(parts))

RECURSIVE Concat(_)
\* ''.join(texts)
Concat(texts) == IF texts = <<>> THEN <<>> ELSE texts[1] \o Concat(Tail(texts))

\* all sequences over S of length at most n
SeqUpTo(S, n) == UNION {[1..k -> S] : k \in 0..n}

(* ------------------------------ inputs --------------------------------- *)
\* api: api/query and api/upload, which share the customer bucket;
\* ingest_api: api/ingest-policies
Apps == {"api", "ingest_api", "streamlit_insurance", "rag", "kb_data_builder", "setup_kb",
         "demo_app"}
Usernames == {"john_doe", "alice"}
Queries == {<<"what", "deductible">>, <<"rental">>}
PolicyTexts == {<<"policyA">>, <<"policyB", "more">>}
PdfNames == {"auto.pdf", "home.pdf"}
PdfBody == <<<<"byte", "%PDF">>>>
\* the characters of a passage a source quotes: doc['content']['text'][:200]
SourceChars == 200
\* a passage text of one character more than a source quotes
LongText == [i \in 1..(SourceChars + 1) |-> IF i <= SourceChars THEN "c" ELSE "tail"]
\* retrieval results: a short text with a source label and a score, a long text without
\* them, and a result without text
Passage1 == [content |-> [text |-> <<"passage1">>], metadata |-> [source |-> "doc1"], score |-> 9]
Passage2 == [content |-> [text |-> LongText]]
NoTextPassage == [score |-> 1]
Passages == {Passage1, Passage2, NoTextPassage}
\* an index that holds more chunks than any client asks for
LongRanking == <<Passage1, Passage2, Passage1, Passage2, Passage1, Passage2>>
\* rankings of distinct passages
Rankings == {<<Passage1, Passage2, NoTextPassage>>, <<NoTextPassage, Passage1, Passage2>>}
\* what the index ranks for a query: the first passages of a ranking, up to MaxDocs of
\* them, or the long ranking
RetrievalResponses ==
    {SubSeq(r, 1, Min(n, Len(r))) : r \in Rankings, n \in 0..MaxDocs} \cup {LongRanking}
Answers == {<<"generated answer">>}

JobStatuses == {"STARTING", "IN_PROGRESS", "COMPLETE", "FAILED"}
Terminal == {"COMPLETE", "FAILED"}

VARIABLES
    app,                   \* the program that runs
    environ,               \* os.environ: the configuration values, None when unset
    pc,                    \* its position ("idle" between requests)
    s3,                    \* object storage: key -> body
    remoteJob,             \* status of the remote ingestion job, "NONE" before a start
    policy_docs,           \* local ./policy_docs: [exists, pdfs]
    job_id,                \* script local
    status,                \* script local, "UNSET" before its first assignment
    pollLog,               \* the last MaxLog polling events
    fetches,               \* status fetches so far, saturating at MaxCount
    connected,             \* EnhancedKnowledgeBaseManager.connected
    conversation_history,  \* RAGInsuranceAssistant.conversation_history
    op,                    \* the last operation: name, inputs, result, external calls
    pinned                 \* one earlier prompt composition, kept for comparison

vars == <<app, environ, pc, s3, remoteJob, policy_docs, job_id, status, pollLog, fetches,
          connected, conversation_history, op, pinned>>

(* ------------------------------- bytes --------------------------------- *)
\* bytes are sequences of byte tokens: <<"utf8", t>> encodes the str token t,
\* BadByte is a byte that is not valid UTF-8
BadByte == <<"byte", "ff">>
\* str.encode('utf-8')
Encode(text) == [i \in 1..Len(text) |-> <<"utf8", text[i]>>]
IsUtf8(b) == b[1] = "utf8"
\* bytes.decode('utf-8'): raises on an invalid byte
Decode(bytes) ==
    [ret |-> [i \in 1..Len(bytes) |-> bytes[i][2]],
     raised |-> \E i \in 1..Len(bytes) : ~IsUtf8(bytes[i])]
\* bytes.decode('utf-8', errors='ignore'): drops the invalid bytes
DecodeIgnore(bytes) ==
    LET valid == SelectSeq(bytes, IsUtf8) IN [i \in 1..Len(valid) |-> valid[i][2]]

(* ------------------------ external calls ------------------------------- *)
Call(api, arg, ok) == [api |-> api, arg |-> arg, ok |-> ok]

\* an operation as its caller and the services saw it: name, arguments and the
\* outcome r of the operation; docs holds the list its retrieval client returned and
\* composed the prompt composition it made, if any
OpOf(name, args, r) ==
    [name |-> name, args |-> args, ret |-> r.ret, raised |-> r.raised, calls |-> r.calls,
     docs |-> Get(r, "docs", <<>>), composed |-> Get(r, "composed", <<>>)]

Nothing == [ret |-> None, raised |-> FALSE, calls |-> <<>>]
NoOp == OpOf("none", None, Nothing)

\* os.getenv(name): None when the variable is unset
getenv(name) == environ[name]

Push(log, e) == IF Len(log) < MaxLog THEN Append(log, e) ELSE Append(Tail(log), e)

(* ------------- api/ingest-policies/route.py: PolicyIngestionHandler ----- *)
\* Every operation yields [ret, raised, calls, ...]: its return value, whether an
\* exception leaves it, and the external calls it made, in order.
TheJobId == "job-1"
\* variant: the pdf is stored under its bare name
PolicyDocKey_Flat(name) == <<name>>
PolicyDocKey(name) == <<"policy_docs/", name>>

\* a call that is handed an unset configuration value fails
PutOk(f, env) == f \in env.putOk /\ getenv("POLICY_BUCKET") # None
StartOk(env) ==
    env.startOk /\ getenv("KNOWLEDGE_BASE_ID") # None /\ getenv("DATA_SOURCE_ID") # None

\* env.putOk: the pdf files whose put_object succeeds; a failed file is skipped
upload_policies_to_s3(env) ==
    LET pdfs == IF policy_docs.exists THEN policy_docs.pdfs ELSE <<>>
        done == SelectSeq(pdfs, LAMBDA f : PutOk(f, env))
        uploaded_files == [i \in 1..Len(done) |-> PolicyDocKey(done[i])]
        written == {uploaded_files[i] : i \in 1..Len(done)}
    IN  [ret    |-> uploaded_files,
         raised |-> FALSE,
         s3     |-> [k \in DOMAIN s3 \cup written |->
                        IF k \in written THEN PdfBody ELSE s3[k]],
         calls  |-> [i \in 1..Len(pdfs) |->
                        Call("s3.put_object", PolicyDocKey(pdfs[i]), PutOk(pdfs[i], env))]]

\* variant: a failed start is tried once more
start_ingestion_job_Retry(env) ==
    LET call == Call("bedrock-agent.start_ingestion_job", "job", StartOk(env))
    IN  [ret       |-> IF StartOk(env) THEN TheJobId ELSE "",
         raised    |-> FALSE,
         remoteJob |-> IF StartOk(env) THEN "STARTING" ELSE remoteJob,
         calls     |-> IF StartOk(env) THEN <<call>> ELSE <<call, call>>]

\* env.startOk: the start_ingestion_job call succeeds; '' on failure
start_ingestion_job(env) ==
    [ret       |-> IF StartOk(env) THEN TheJobId ELSE "",
     raised    |-> FALSE,
     remoteJob |-> IF StartOk(env) THEN "STARTING" ELSE remoteJob,
     calls     |-> <<Call("bedrock-agent.start_ingestion_job", "job", StartOk(env))>>]

\* the get_ingestion_job call succeeds when the service answers and knows the job
GetJobOk(id, env) ==
    /\ env.getOk /\ remoteJob # "NONE" /\ id = TheJobId
    /\ app \in {"ingest_api", "setup_kb"} =>
           getenv("KNOWLEDGE_BASE_ID") # None /\ getenv("DATA_SOURCE_ID") # None

\* variant: without the try/except
check_ingestion_status_NoExcept(id, env) ==
    [ret    |-> IF GetJobOk(id, env)
                THEN [status |-> remoteJob, started_at |-> "", updated_at |-> "",
                      statistics |-> "{}"]
                ELSE [status |-> "ERROR", error |-> "exception"],
     raised |-> ~GetJobOk(id, env),
     calls  |-> <<Call("bedrock-agent.get_ingestion_job", id, GetJobOk(id, env))>>]

check_ingestion_status(id, env) ==
    [ret    |-> IF GetJobOk(id, env)
                THEN [status |-> remoteJob, started_at |-> "", updated_at |-> "",
                      statistics |-> "{}"]
                ELSE [status |-> "ERROR", error |-> "exception"],
     raised |-> FALSE,
     calls  |-> <<Call("bedrock-agent.get_ingestion_job", id, GetJobOk(id, env))>>]

\* variant: the job is started whatever was uploaded
NoUploads_Never(uploaded_files) == FALSE
\* if not uploaded_files
NoUploads(uploaded_files) == ~TruthyText(uploaded_files)

\* variant: any job_id is taken
NoJob_Never(id) == FALSE
\* if not job_id
NoJob(id) == ~TruthyId(id)

handle_policy_ingestion(request_data, env) ==
    LET action == Get(request_data, "action", "ingest")
        same == [s3 |-> s3, remoteJob |-> remoteJob]
    IN  IF action = "ingest" THEN
            LET up == upload_policies_to_s3(env)
                st == start_ingestion_job(env)
            IN  IF up.raised \/ NoUploads(up.ret) THEN
                    [ret |-> [error |-> "No policy documents found to upload", status |-> 400],
                     raised |-> up.raised,
                     s3 |-> up.s3, remoteJob |-> remoteJob, calls |-> up.calls]
                ELSE IF st.raised \/ NoJob(st.ret) THEN
                    [ret |-> [error |-> "Failed to start ingestion job", status |-> 500],
                     raised |-> st.raised,
                     s3 |-> up.s3, remoteJob |-> st.remoteJob, calls |-> up.calls \o st.calls]
                ELSE
                    [ret |-> [success |-> TRUE,
                              message |-> <<"Started ingestion of ", Len(up.ret), " policy documents">>,
                              job_id |-> st.ret, uploaded_files |-> up.ret],
                     raised |-> FALSE,
                     s3 |-> up.s3, remoteJob |-> st.remoteJob, calls |-> up.calls \o st.calls]
        ELSE IF action = "status" THEN
            LET id == Get(request_data, "job_id", None)
                ck == check_ingestion_status(id, env)
            IN  IF NoJob(id) THEN
                    [ret |-> [error |-> "job_id required for status check", status |-> 400],
                     raised |-> FALSE, calls |-> <<>>] @@ same
                ELSE [ret |-> [success |-> TRUE, job_status |-> ck.ret], raised |-> ck.raised,
                      calls |-> ck.calls] @@ same
        ELSE [ret |-> [error |-> "Invalid action. Use \"ingest\" or \"status\"", status |-> 400],
              raised |-> FALSE, calls |-> <<>>] @@ same

IngestEnvs == [putOk : SUBSET PdfNames, startOk : BOOLEAN, getOk : BOOLEAN]

IngestRequests ==
    {[action |-> "ingest"], [action |-> "status"], [action |-> "delete"], [job_id |-> TheJobId]}
    \cup {[action |-> "status", job_id |-> j] : j \in {TheJobId, "job-0", ""}}

\* one request to the ingestion API
HandlePolicyIngestion ==
    /\ app = "ingest_api" /\ pc = "idle" /\ pc' = "returned"
    /\ \E request_data \in IngestRequests, env \in IngestEnvs :
         LET r == handle_policy_ingestion(request_data, env)
         IN  /\ s3' = r.s3
             /\ remoteJob' = r.remoteJob
             /\ op' = OpOf("handle_policy_ingestion", request_data, r)
    /\ UNCHANGED <<app, environ, policy_docs, job_id, status, pollLog, fetches, connected,
                   conversation_history, pinned>>

(* ----------------------------- remote job ------------------------------ *)
\* the remote service moves the job on
JobProgress ==
    /\ remoteJob \in {"STARTING", "IN_PROGRESS"}
    /\ remoteJob' \in (IF remoteJob = "STARTING" THEN {"IN_PROGRESS", "FAILED"}
                       ELSE {"COMPLETE", "FAILED"})
    /\ UNCHANGED <<app, environ, pc, s3, policy_docs, job_id, status, pollLog, fetches, connected,
                   conversation_history, op, pinned>>

(* ---------------------- kb_data_builder.py __main__ -------------------- *)
Fetch(st) == <<"fetch", st>>
Sleep30 == <<"sleep", "30">>

\* KnowledgeBaseBuilder.check_ingestion_status: the status string, "ERROR" on failure
builder_check_ingestion_status(id, env) ==
    IF GetJobOk(id, env) THEN remoteJob ELSE "ERROR"

\* variants of the loop test: FAILED does not end the loop; the loop gives up after
\* MaxCount fetches
BuilderLoopExits_CompleteOnly(st) == st = "COMPLETE"
BuilderLoopExits_Ceiling(st) == st \in {"COMPLETE", "FAILED"} \/ fetches >= MaxCount - 1

BuilderLoopExits(st) == st \in {"COMPLETE", "FAILED"}

\* variant: the loop asks again at once
AfterFetch_NoSleep(exits) == IF exits THEN "after_loop" ELSE "check_status"
\* break, or go on to time.sleep(30)
AfterFetch(exits) == IF exits THEN "after_loop" ELSE "sleep"

\* create_knowledge_base, then create_data_source; each returns None on failure
BuilderCreate ==
    /\ app = "kb_data_builder" /\ pc \in {"create_kb", "create_ds"}
    /\ \E ok \in BOOLEAN :
         pc' = IF ~ok THEN "finished"
               ELSE IF pc = "create_kb" THEN "create_ds" ELSE "start_job"
    /\ UNCHANGED <<app, environ, s3, remoteJob, policy_docs, job_id, status, pollLog, fetches,
                   connected, conversation_history, op, pinned>>

BuilderStartJob ==
    /\ app = "kb_data_builder" /\ pc = "start_job"
    /\ \E ok \in BOOLEAN :
         /\ job_id' = IF ok THEN TheJobId ELSE None
         /\ remoteJob' = IF ok THEN "STARTING" ELSE remoteJob
         /\ pc' = IF TruthyId(job_id') THEN "check_status" ELSE "finished"
    /\ UNCHANGED <<app, environ, s3, policy_docs, status, pollLog, fetches, connected,
                   conversation_history, op, pinned>>

\* the loop body up to the sleep: fetch the status, leave the loop on a terminal one
BuilderCheckStatus ==
    /\ app = "kb_data_builder" /\ pc = "check_status"
    /\ \E env \in IngestEnvs :
         /\ status' = builder_check_ingestion_status(job_id, env)
         /\ pollLog' = Push(pollLog, Fetch(status'))
         /\ fetches' = Min(fetches + 1, MaxCount)
         /\ pc' = AfterFetch(BuilderLoopExits(status'))
    /\ UNCHANGED <<app, environ, s3, remoteJob, policy_docs, job_id, connected,
                   conversation_history, op, pinned>>

BuilderSleep ==
    /\ app = "kb_data_builder" /\ pc = "sleep"
    /\ pollLog' = Push(pollLog, Sleep30)
    /\ pc' = "check_status"
    /\ UNCHANGED <<app, environ, s3, remoteJob, policy_docs, job_id, status, fetches, connected,
                   conversation_history, op, pinned>>

(* -------------------- setup_kb.py setup_knowledge_base ----------------- *)
SetupLoopExits(st) == st \in {"COMPLETE", "FAILED"}

\* Step 1: handle_policy_ingestion({'action': 'ingest'})
SetupIngest ==
    /\ app = "setup_kb" /\ pc = "ingest"
    /\ \E env \in IngestEnvs :
         LET r == handle_policy_ingestion([action |-> "ingest"], env)
         IN  /\ s3' = r.s3
             /\ remoteJob' = r.remoteJob
             /\ op' = OpOf("handle_policy_ingestion", [action |-> "ingest"], r)
             /\ IF Get(r.ret, "success", FALSE)
                THEN job_id' = r.ret.job_id /\ pc' = "status"
                ELSE job_id' = job_id /\ pc' = "finished"
    /\ UNCHANGED <<app, environ, policy_docs, status, pollLog, fetches, connected,
                   conversation_history, pinned>>

\* the loop body up to the sleep
SetupStatus ==
    /\ app = "setup_kb" /\ pc = "status"
    /\ \E env \in IngestEnvs :
         LET request_data == [action |-> "status", job_id |-> job_id]
             r == handle_policy_ingestion(request_data, env)
             calls == r.calls
         IN  /\ op' = OpOf("handle_policy_ingestion", request_data, r)
             /\ pollLog' = IF calls # <<>> THEN Push(pollLog, Fetch(r.ret.job_status.status))
                           ELSE pollLog
             /\ fetches' = IF calls # <<>> THEN Min(fetches + 1, MaxCount) ELSE fetches
             /\ IF Get(r.ret, "success", FALSE)
                THEN /\ status' = r.ret.job_status.status
                     /\ pc' = IF SetupLoopExits(status') THEN "after_loop" ELSE "sleep"
                ELSE /\ status' = status
                     /\ pc' = "after_loop"
    /\ UNCHANGED <<app, environ, s3, remoteJob, policy_docs, job_id, connected,
                   conversation_history, pinned>>

SetupSleep ==
    /\ app = "setup_kb" /\ pc = "sleep"
    /\ pollLog' = Push(pollLog, Sleep30)
    /\ pc' = "status"
    /\ UNCHANGED <<app, environ, s3, remoteJob, policy_docs, job_id, status, fetches, connected,
                   conversation_history, op, pinned>>

\* after the loop: status == 'COMPLETE' decides the message
SetupReport ==
    /\ app = "setup_kb" /\ pc = "after_loop"
    /\ pc' = "finished"
    /\ op' = OpOf("setup_report", [status |-> status],
                  [ret |-> IF status = "COMPLETE" THEN "Knowledge Base setup complete!"
                           ELSE "Ingestion failed",
                   raised |-> status = "UNSET", calls |-> <<>>])
    /\ UNCHANGED <<app, environ, s3, remoteJob, policy_docs, job_id, status, pollLog, fetches,
                   connected, conversation_history, pinned>>

(* ------------------- retrieval and generation services ----------------- *)
\* what the services answer to one operation: whether each call succeeds, the
\* passages the retrieval returns and the text the model generates
ServiceEnvs ==
    {e \in [s3Ok : BOOLEAN, retrieveOk : BOOLEAN, passages : RetrievalResponses,
            generateOk : BOOLEAN, answer : Answers] : ~e.retrieveOk => e.passages = <<>>}

\* doc['content']['text'] raises KeyError on a result without text
HasText(doc) == "content" \in DOMAIN doc /\ "text" \in DOMAIN doc.content
\* variant: an empty result list raises as well
AllHaveText_NonEmpty(docs) == docs # <<>> /\ \A i \in 1..Len(docs) : HasText(docs[i])
AllHaveText(docs) == \A i \in 1..Len(docs) : HasText(docs[i])
Texts(docs) == [i \in 1..Len(docs) |-> docs[i].content.text]

\* text[:n]
Prefix(text, n) == SubSeq(text, 1, Min(n, Len(text)))


S3GetOk(key, env) == env.s3Ok /\ key \in DOMAIN s3 /\ getenv("CUSTOMER_POLICY_BUCKET") # None
RetrieveOk(env) == env.retrieveOk /\ (app = "api" => getenv("KNOWLEDGE_BASE_ID") # None)
GenerateOk(env) ==
    env.generateOk /\ (app \in {"api", "streamlit_insurance"} => getenv("KNOWLEDGE_BASE_ID") # None)

\* the client calls: raised when the call fails
S3GetObject(key, env) ==
    [ret |-> IF S3GetOk(key, env) THEN s3[key] ELSE NoObject, raised |-> ~S3GetOk(key, env),
     calls |-> <<Call("s3.get_object", key, S3GetOk(key, env))>>]
\* the service returns the numberOfResults best results of its ranking
BedrockRetrieve(query, numberOfResults, env) ==
    [ret |-> [retrievalResults |-> Prefix(env.passages, numberOfResults)], raised |-> ~RetrieveOk(env),
     calls |-> <<Call("bedrock-agent-runtime.retrieve", query, RetrieveOk(env))>>]
BedrockRetrieveAndGenerate(text, env) ==
    [ret |-> [output |-> [text |-> env.answer]], raised |-> ~GenerateOk(env),
     calls |-> <<Call("bedrock-agent-runtime.retrieve_and_generate", text, GenerateOk(env))>>]
BedrockInvokeModel(prompt, env) ==
    [ret |-> [content |-> <<[text |-> env.answer]>>], raised |-> ~GenerateOk(env),
     calls |-> <<Call("bedrock-runtime.invoke_model", prompt, GenerateOk(env))>>]

(* ------------- api/query/route.py: InsurancePolicyQueryHandler --------- *)
CustomerPolicyKey(username) == <<"customer_policy/", username, ".txt">>

\* variant: the policy of the default customer is read for every username
get_customer_policy_DefaultCustomer(username, env) ==
    LET response == S3GetObject(CustomerPolicyKey("john_doe"), env)
        text == Decode(response.ret)
    IN  [ret |-> IF response.raised \/ text.raised THEN <<>> ELSE text.ret, raised |-> FALSE,
         calls |-> response.calls]

get_customer_policy(username, env) ==
    LET response == S3GetObject(CustomerPolicyKey(username), env)
        text == Decode(response.ret)
    IN  [ret |-> IF response.raised \/ text.raised THEN <<>> ELSE text.ret, raised |-> FALSE,
         calls |-> response.calls]

QueryMaxResults == 3

\* variant: without the try/except
retrieve_from_kb_NoExcept(query, max_results, env) ==
    LET response == BedrockRetrieve(query, max_results, env)
    IN  [ret |-> IF response.raised THEN <<>> ELSE response.ret.retrievalResults,
         raised |-> response.raised, calls |-> response.calls]

retrieve_from_kb(query, max_results, env) ==
    LET response == BedrockRetrieve(query, max_results, env)
    IN  [ret |-> IF response.raised THEN <<>> ELSE response.ret.retrievalResults,
         raised |-> FALSE, calls |-> response.calls]

QueryIntro == "You are an expert insurance policy assistant. Use the following information to provide accurate, helpful responses:\n\n"
QueryPolicyLabel == "CUSTOMER'S SPECIFIC POLICY:\n"
QueryContextLabel == "\n\nGENERAL INSURANCE POLICY INFORMATION:\n"
QueryQuestionLabel == "\n\nCUSTOMER QUESTION: "
QueryInstructions == "\n\nPlease provide a comprehensive response that: ... Response:"
\* the separator of the query handler is the four characters backslash n backslash n
QuerySeparator == "\\n\\n"

\* variant: the context is cut to a fixed length
QueryPrompt_Truncated(customer_policy, context, query) ==
    <<QueryIntro, QueryPolicyLabel>> \o customer_policy \o <<QueryContextLabel>>
        \o Prefix(context, 2) \o <<QueryQuestionLabel>> \o query \o <<QueryInstructions>>

\* the f-string of generate_response
QueryPrompt(customer_policy, context, query) ==
    <<QueryIntro, QueryPolicyLabel>> \o customer_policy \o <<QueryContextLabel>> \o context
        \o <<QueryQuestionLabel>> \o query \o <<QueryInstructions>>

QueryApology == <<"I apologize, but I encountered an error processing your request. Please try again or contact customer service.">>

Composition(composer, customer_policy, docs, query, prompt) ==
    [composer |-> composer, customer_policy |-> customer_policy, docs |-> docs,
     query |-> query, prompt |-> prompt]

QuerySources(kb_results) ==
    [i \in 1..Len(kb_results) |->
        [title   |-> Get(Get(kb_results[i], "metadata", <<>>), "source", "Policy Document"),
         content |-> Prefix(kb_results[i].content.text, SourceChars) \o <<"...">>]]

generate_response(query, username, env) ==
    LET pol == get_customer_policy(username, env)
        customer_policy == pol.ret
        kb == IF pol.raised THEN [ret |-> <<>>, raised |-> FALSE, calls |-> <<>>]
              ELSE retrieve_from_kb(query, QueryMaxResults, env)
        kb_results == kb.ret
        composes == ~pol.raised /\ ~kb.raised /\ AllHaveText(kb_results)
        context == Join(<<QuerySeparator>>, Texts(kb_results))
        prompt == QueryPrompt(customer_policy, context, query)
        response == IF composes THEN BedrockRetrieveAndGenerate(prompt, env)
                    ELSE [ret |-> None, raised |-> TRUE, calls |-> <<>>]
    IN  [ret |-> IF response.raised
                 THEN [response |-> QueryApology, sources |-> <<>>, error |-> "exception"]
                 ELSE [response |-> response.ret.output.text,
                       sources |-> QuerySources(kb_results),
                       customer_policy_used |-> TruthyText(customer_policy),
                       timestamp |-> "date"],
         raised |-> FALSE,
         calls |-> pol.calls \o kb.calls \o response.calls,
         docs |-> IF pol.raised \/ kb.raised THEN <<>> ELSE <<kb_results>>,
         composed |-> IF composes
                      THEN <<Composition("query", customer_policy, kb_results, query, prompt)>>
                      ELSE <<>>]

\* variant: success tells whether the answer carries an error
QuerySuccess_IfNoError(result) == "error" \notin DOMAIN result
\* 'success': True, whatever generate_response returned
QuerySuccess(result) == TRUE

\* variant: an empty query is answered as well
NoQuery_Never(query) == FALSE
\* if not query
NoQuery(query) == ~TruthyText(query)

handle_query(request_data, env) ==
    LET query == Get(request_data, "query", <<>>)
        username == Get(request_data, "username", "john_doe")
        result == generate_response(query, username, env)
    IN  IF NoQuery(query) THEN
            [ret |-> [error |-> "Query is required", status |-> 400], raised |-> FALSE,
             calls |-> <<>>, docs |-> <<>>, composed |-> <<>>]
        ELSE [ret |-> [success |-> QuerySuccess(result.ret), data |-> result.ret,
                       timestamp |-> "{\"timestamp\": \"now\"}",
                       model |-> "Insurance Policy Assistant with Bedrock KB"],
              raised |-> result.raised, calls |-> result.calls, docs |-> result.docs,
              composed |-> result.composed]

QueryRequests ==
    [query : Queries \cup {<<>>}, username : Usernames] \cup [query : Queries]
        \cup [username : Usernames]

\* one request to the query API
HandleQuery ==
    /\ app = "api" /\ pc = "idle" /\ pc' = "returned"
    /\ \E request_data \in QueryRequests, env \in ServiceEnvs :
         LET r == handle_query(request_data, env)
         IN  op' = OpOf("handle_query", request_data, r)
    /\ UNCHANGED <<app, environ, s3, remoteJob, policy_docs, job_id, status, pollLog,
                   fetches, connected, conversation_history, pinned>>

(* ------------- lib/s3_storage.py, lib/bedrock_kb.py -------------------- *)
\* S3Storage.get_file: the text, None on failure
get_file(key, env) ==
    LET response == S3GetObject(key, env)
        text == Decode(response.ret)
    IN  [ret |-> IF response.raised \/ text.raised THEN NoneText ELSE text.ret,
         raised |-> FALSE, calls |-> response.calls]

LibApology == <<"Error processing request.">>

\* variant: the error response quotes the query
retrieve_and_generate_QuotesQuery(kb_id, query, env) ==
    LET response == BedrockRetrieveAndGenerate(query, env)
    IN  [ret |-> IF response.raised
                 THEN [response |-> <<"Error processing request: ">> \o query,
                       error |-> "exception"]
                 ELSE [response |-> response.ret.output.text, citations |-> <<>>,
                       session_id |-> ""],
         raised |-> FALSE, calls |-> response.calls]

\* BedrockKnowledgeBase.retrieve_and_generate
retrieve_and_generate(kb_id, query, env) ==
    LET response == BedrockRetrieveAndGenerate(query, env)
    IN  [ret |-> IF response.raised
                 THEN [response |-> LibApology, error |-> "exception"]
                 ELSE [response |-> response.ret.output.text, citations |-> <<>>,
                       session_id |-> ""],
         raised |-> FALSE, calls |-> response.calls]

\* variant: without the test of kb_id
query_insurance_policy_NoCheck(question, customer_context, env) ==
    LET kb_id == getenv("KNOWLEDGE_BASE_ID")
        enhanced_query == IF TruthyText(customer_context)
                          THEN question \o <<"\n\nCustomer Context: ">> \o customer_context
                          ELSE question
    IN  retrieve_and_generate(kb_id, enhanced_query, env)

\* InsuranceKBManager.query_insurance_policy
query_insurance_policy(question, customer_context, env) ==
    LET kb_id == getenv("KNOWLEDGE_BASE_ID")
        enhanced_query == IF TruthyText(customer_context)
                          THEN question \o <<"\n\nCustomer Context: ">> \o customer_context
                          ELSE question
    IN  IF ~TruthyId(kb_id)
        THEN [ret |-> [error |-> "Knowledge Base ID not configured"], raised |-> FALSE,
              calls |-> <<>>]
        ELSE retrieve_and_generate(kb_id, enhanced_query, env)

(* ------------- streamlit_insurance_app.py: InsuranceAssistant ---------- *)
\* variant: without the `or ""`
assistant_get_customer_policy_NoDefault(username, env) ==
    LET f == get_file(CustomerPolicyKey(username), env)
    IN  [ret |-> f.ret, raised |-> f.raised, calls |-> f.calls]

assistant_get_customer_policy(username, env) ==
    LET f == get_file(CustomerPolicyKey(username), env)
    IN  [ret |-> IF f.raised THEN None ELSE IF TruthyText(f.ret) THEN f.ret ELSE <<>>,
         raised |-> f.raised, calls |-> f.calls]

query_policy(question, username, env) ==
    LET pol == assistant_get_customer_policy(username, env)
        r == IF pol.raised THEN [ret |-> None, raised |-> TRUE, calls |-> <<>>]
             ELSE query_insurance_policy(question, pol.ret, env)
    IN  [ret |-> r.ret, raised |-> r.raised, calls |-> pol.calls \o r.calls,
         customer_policy |-> pol.ret]

\* the "Load Policy" button of the sidebar
LoadPolicy ==
    /\ app = "streamlit_insurance" /\ pc = "idle" /\ pc' = "returned"
    /\ \E username \in Usernames, env \in ServiceEnvs :
         LET r == assistant_get_customer_policy(username, env)
         IN  op' = OpOf("get_customer_policy", [username |-> username], r)
    /\ UNCHANGED <<app, environ, s3, remoteJob, policy_docs, job_id, status, pollLog,
                   fetches, connected, conversation_history, pinned>>

\* one chat input
QueryPolicy ==
    /\ app = "streamlit_insurance" /\ pc = "idle" /\ pc' = "returned"
    /\ \E question \in Queries, username \in Usernames, env \in ServiceEnvs :
         LET r == query_policy(question, username, env)
         IN  op' = OpOf("query_policy", [question |-> question, username |-> username,
                                         customer_policy |-> r.customer_policy], r)
    /\ UNCHANGED <<app, environ, s3, remoteJob, policy_docs, job_id, status, pollLog,
                   fetches, connected, conversation_history, pinned>>

(* ------------- api/upload/route.py: DocumentUploadHandler -------------- *)
\* file names are <<stem, extension>>
Filenames == {<<"policy", ".txt">>, <<"scan", ".pdf">>}
FileContents == {Encode(<<"policyA">>), Encode(<<"policyB">>) \o <<BadByte>>}
Categories == {"general", "customer_policy"}

\* str.endswith
EndsWith(name, suffix) == Len(name) > 0 /\ name[Len(name)] = suffix

UploadedObjects == {k \in DOMAIN s3 : k[1] = "uploads/"}
\* str(uuid.uuid4()): a value no earlier upload has used
uuid4 == ToString(Cardinality(UploadedObjects) + 1)

\* whether the storage client's call (put_object, generate_presigned_url) succeeds
UploadEnvs == [putOk : BOOLEAN]
S3PutOk(bucket, env) == env.putOk /\ bucket # None

customer_bucket == getenv("CUSTOMER_POLICY_BUCKET")
uploads_bucket ==
    IF getenv("UPLOADS_BUCKET") # None THEN getenv("UPLOADS_BUCKET") ELSE customer_bucket

S3PutObject(bucket, key, body, env) ==
    [raised |-> ~S3PutOk(bucket, env),
     s3     |-> IF S3PutOk(bucket, env)
                THEN [k \in DOMAIN s3 \cup {key} |-> IF k = key THEN body ELSE s3[k]]
                ELSE s3,
     calls  |-> <<Call("s3.put_object", key, S3PutOk(bucket, env))>>]

\* variant: every file is decoded with errors='ignore'
upload_customer_policy_AlwaysIgnore(file_content, username, filename, env) ==
    LET s3_key == <<"customer_policy/", username, ".txt">>
        put == S3PutObject(customer_bucket, s3_key, Encode(DecodeIgnore(file_content)), env)
    IN  [ret |-> s3_key, raised |-> put.raised, s3 |-> put.s3, calls |-> put.calls]

upload_customer_policy(file_content, username, filename, env) ==
    LET s3_key == <<"customer_policy/", username, ".txt">>
        strict == Decode(file_content)
        decodes == ~EndsWith(filename, ".txt") \/ ~strict.raised
        content == IF EndsWith(filename, ".txt") THEN strict.ret ELSE DecodeIgnore(file_content)
        put == IF decodes THEN S3PutObject(customer_bucket, s3_key, Encode(content), env)
               ELSE [raised |-> TRUE, s3 |-> s3, calls |-> <<>>]
    IN  [ret |-> s3_key, raised |-> put.raised, s3 |-> put.s3, calls |-> put.calls]

upload_general_document(file_content, filename, category, env) ==
    LET file_id == uuid4
        s3_key == <<"uploads/", category, "/", file_id, "_">> \o filename
        put == S3PutObject(uploads_bucket, s3_key, file_content, env)
    IN  [ret |-> s3_key, raised |-> put.raised, s3 |-> put.s3, calls |-> put.calls]

RECURSIVE Spell(_)
\* the str an f-string builds from its pieces: the pieces john, _, doe spell john_doe
Spell(text) ==
    IF Len(text) < 3 THEN text
    ELSE IF SubSeq(text, 1, 3) = <<"john", "_", "doe">>
    THEN <<"john_doe">> \o Spell(SubSeq(text, 4, Len(text)))
    ELSE <<text[1]>> \o Spell(Tail(text))

get_upload_url(filename, username, env) ==
    LET s3_key == IF TruthyId(username)
                  THEN Spell(<<"customer_policy/", username, "_">> \o filename)
                  ELSE <<"uploads/", "general", "/", uuid4, "_">> \o filename
        bucket == IF TruthyId(username) THEN customer_bucket ELSE uploads_bucket
    IN  [ret |-> <<"https://", bucket, "/">> \o s3_key, raised |-> ~env.putOk,
         s3 |-> s3, calls |-> <<Call("s3.generate_presigned_url", s3_key, env.putOk)>>]

handle_upload(request_data, env) ==
    LET action == Get(request_data, "action", "upload")
        filename == Get(request_data, "filename", <<>>)
        username == Get(request_data, "username", None)
        nothing == [raised |-> FALSE, s3 |-> s3, calls |-> <<>>]
    IN  IF action = "upload" THEN
            LET file_content == Get(request_data, "file_content", NoneText)
                category == Get(request_data, "category", "general")
                up == IF TruthyId(username) /\ category = "customer_policy"
                      THEN upload_customer_policy(file_content, username, filename, env)
                      ELSE upload_general_document(file_content, filename, category, env)
                message == IF TruthyId(username) /\ category = "customer_policy"
                           THEN <<"Customer policy uploaded for ", username>>
                           ELSE <<"Document uploaded to ", category, " category">>
            IN  IF ~TruthyText(file_content) \/ ~TruthyText(filename) THEN
                    [ret |-> [error |-> "file_content and filename are required",
                              status |-> 400]] @@ nothing
                ELSE IF up.raised THEN
                    [ret |-> [error |-> "exception", status |-> 500], raised |-> FALSE,
                     s3 |-> up.s3, calls |-> up.calls]
                ELSE [ret |-> [success |-> TRUE, message |-> message, s3_key |-> up.ret,
                               filename |-> filename, category |-> category,
                               size |-> Len(file_content)],
                      raised |-> FALSE, s3 |-> up.s3, calls |-> up.calls]
        ELSE IF action = "get_upload_url" THEN
            LET url == get_upload_url(filename, username, env)
            IN  IF ~TruthyText(filename) THEN
                    [ret |-> [error |-> "filename is required", status |-> 400]] @@ nothing
                ELSE IF url.raised THEN
                    [ret |-> [error |-> "exception", status |-> 500], raised |-> FALSE,
                     s3 |-> s3, calls |-> url.calls]
                ELSE [ret |-> [success |-> TRUE, upload_url |-> url.ret, expires_in |-> 3600],
                      raised |-> FALSE, s3 |-> s3, calls |-> url.calls]
        ELSE [ret |-> [error |-> "Invalid action. Use \"upload\" or \"get_upload_url\"",
                       status |-> 400]] @@ nothing

\* the requests: customer policy uploads, general uploads (also with one of username
\* and category missing), requests that lack a field, presign requests, a wrong action
UploadRequests ==
    [action : {"upload"}, file_content : FileContents, filename : Filenames,
     username : Usernames, category : {"customer_policy"}]
    \cup {[action |-> "upload", file_content |-> Encode(<<"policyA">>),
           filename |-> <<"policy", ".txt">>, username |-> None, category |-> "customer_policy"],
          [action |-> "upload", file_content |-> Encode(<<"policyA">>),
           filename |-> <<"policy", ".txt">>, username |-> "john_doe", category |-> "general"]}
    \cup {[file_content |-> Encode(<<"policyA">>), filename |-> <<"scan", ".pdf">>]}
    \cup {[action |-> "upload", file_content |-> c, filename |-> f, username |-> None,
           category |-> "general"] :
             c \in {<<>>, Encode(<<"policyA">>)}, f \in {<<>>, <<"policy", ".txt">>}}
    \cup [action : {"get_upload_url"}, filename : Filenames \cup {<<>>},
          username : Usernames \cup {None}]
    \cup {[action |-> "get_upload_url", filename |-> <<"doe", ".txt">>, username |-> "john"]}
    \cup {[action |-> "delete"]}

\* most stored objects other than customer policies in the model
MaxUploads == 1
\* the objects of a store that are not the policy of a customer
OtherObjects(store) == {k \in DOMAIN store : k \notin {CustomerPolicyKey(u) : u \in Usernames}}

\* the key a presigned URL names
KeyOfUrl(url) == SubSeq(url, 4, Len(url))
\* what the holder of a presigned URL sends
PutBody == Encode(<<"policyB">>)

\* one request to the upload API
HandleUpload ==
    /\ app = "api" /\ pc = "idle" /\ pc' = "returned"
    /\ \E request_data \in UploadRequests, env \in UploadEnvs :
         LET r == handle_upload(request_data, env)
         IN  /\ Cardinality(OtherObjects(r.s3)) <= MaxUploads
             /\ s3' = r.s3
             /\ op' = OpOf("handle_upload", request_data, r)
    /\ UNCHANGED <<app, environ, remoteJob, policy_docs, job_id, status, pollLog,
                   fetches, connected, conversation_history, pinned>>

\* the client that was handed a presigned URL puts its file to the key the URL names,
\* before the caller goes on
PresignedPut ==
    /\ app = "api" /\ pc = "returned"
    /\ op.name = "handle_upload" /\ "upload_url" \in DOMAIN op.ret
    /\ op.ret.upload_url[2] # None
    /\ LET key == KeyOfUrl(op.ret.upload_url)
       IN  /\ s3' = [k \in DOMAIN s3 \cup {key} |-> IF k = key THEN PutBody ELSE s3[k]]
           /\ s3' # s3
           /\ Cardinality(OtherObjects(s3')) <= MaxUploads
    /\ UNCHANGED <<app, environ, pc, remoteJob, policy_docs, job_id, status, pollLog,
                   fetches, connected, conversation_history, op, pinned>>

(* ------------- rag_system.py: EnhancedKnowledgeBaseManager ------------- *)
\* The strings that `in` and lower() look into are sequences of characters.
W_deductible == <<"d", "e", "d", "u", "c", "t", "i", "b", "l", "e">>
W_pay == <<"p", "a", "y">>
W_cost == <<"c", "o", "s", "t">>
W_rental == <<"r", "e", "n", "t", "a", "l">>
W_car == <<"c", "a", "r">>
W_replacement == <<"r", "e", "p", "l", "a", "c", "e", "m", "e", "n", "t">>
W_claim == <<"c", "l", "a", "i", "m">>
W_file == <<"f", "i", "l", "e">>
W_accident == <<"a", "c", "c", "i", "d", "e", "n", "t">>
W_coverage == <<"c", "o", "v", "e", "r", "a", "g", "e">>
W_covered == <<"c", "o", "v", "e", "r", "e", "d">>
W_include == <<"i", "n", "c", "l", "u", "d", "e">>
\* str.lower, on the capitals the words use
CharLower(c) == CASE c = "R" -> "r" [] c = "P" -> "p" [] OTHER -> c
StrLower(str) == [i \in 1..Len(str) |-> CharLower(str[i])]
\* variant: the word has to start the text
IsSubstring_Prefix(word, text) ==
    Len(word) <= Len(text) /\ SubSeq(text, 1, Len(word)) = word
\* word in text
IsSubstring(word, text) ==
    \E i \in 0..(Len(text) - Len(word)) : SubSeq(text, i + 1, i + Len(word)) = word
\* any(word in text for word in words)
AnyIn(words, text) == \E i \in 1..Len(words) : IsSubstring(words[i], text)

_get_demo_results(query) ==
    << [content |-> [text |-> <<"Demo result for query: ">> \o query
                               \o <<". This would contain relevant insurance policy information.">>],
        metadata |-> [source |-> "Demo Policy Document", type |-> "policy"], score |-> 95],
       [content |-> [text |-> <<"Coverage includes comprehensive and collision protection with a $500 deductible.">>],
        metadata |-> [source |-> "Coverage Details", type |-> "coverage"], score |-> 87] >>

\* variant: the service is asked in demo mode as well
retrieve_documents_AlwaysRemote(query, max_results, env) ==
    LET response == BedrockRetrieve(query, max_results, env)
    IN  [ret |-> IF response.raised THEN <<>>
                 ELSE Get(response.ret, "retrievalResults", <<>>),
         raised |-> FALSE, calls |-> response.calls]

\* variant: the request does not carry max_results
retrieve_documents_Unbounded(query, max_results, env) ==
    IF ~connected
    THEN [ret |-> _get_demo_results(query), raised |-> FALSE, calls |-> <<>>]
    ELSE LET response == BedrockRetrieve(query, Len(env.passages), env)
         IN  [ret |-> IF response.raised THEN <<>>
                      ELSE Get(response.ret, "retrievalResults", <<>>),
              raised |-> FALSE, calls |-> response.calls]

retrieve_documents(query, max_results, env) ==
    IF ~connected
    THEN [ret |-> _get_demo_results(query), raised |-> FALSE, calls |-> <<>>]
    ELSE LET response == BedrockRetrieve(query, max_results, env)
         IN  [ret |-> IF response.raised THEN <<>>
                      ELSE Get(response.ret, "retrievalResults", <<>>),
              raised |-> FALSE, calls |-> response.calls]

\* demo_responses.keys(), in insertion order, and the characters of each key
demo_keys == <<"deductible", "rental", "accident", "claim", "coverage">>
KeyChars ==
    [deductible |-> W_deductible, rental |-> W_rental, accident |-> W_accident,
     claim |-> W_claim, coverage |-> W_coverage]
demo_responses ==
    [deductible |-> <<"Based on your policy, your deductible is $500 ...">>,
     rental     |-> <<"Yes, your policy includes rental car coverage up to $30 per day ...">>,
     accident   |-> <<"If you have an accident, first ensure everyone's safety ...">>,
     claim      |-> <<"To file a claim, you can call our 24/7 claims hotline ...">>,
     coverage   |-> <<"Your policy excludes normal wear and tear ...">>]
DemoGeneric == <<"I'd be happy to help with your insurance question. Could you please provide more specific details?">>

\* response_key starts as 'deductible'; the loop stops at the first key of
\* demo_responses that query.lower() contains
_generate_demo_response(query, context) ==
    LET hits == {i \in 1..Len(demo_keys) : IsSubstring(KeyChars[demo_keys[i]], StrLower(query))}
        response_key == IF hits = {} THEN "deductible"
                        ELSE demo_keys[CHOOSE i \in hits : \A j \in hits : i <= j]
    IN  [response |-> Get(demo_responses, response_key, DemoGeneric),
         model_used |-> "Demo Mode", timestamp |-> "now"]

RagIntro == "You are an expert insurance assistant. Use the following information to provide a comprehensive answer:\n\n"
RagPolicyLabel == "CUSTOMER POLICY:\n"
RagContextLabel == "\n\nRELEVANT CONTEXT:\n"
RagQuestionLabel == "\n\nCUSTOMER QUESTION: "
RagInstructions == "\n\nPlease provide a detailed, accurate response based on the available information. Include specific policy details when relevant and cite sources when possible."
RagSeparator == "\n\n"

\* variant: the earlier questions of the conversation are put into the prompt
RagPrompt_WithHistory(customer_policy, context, query) ==
    <<RagIntro, RagPolicyLabel>> \o customer_policy \o <<RagContextLabel>> \o context
        \o Concat([i \in 1..Len(conversation_history) |-> conversation_history[i].query])
        \o <<RagQuestionLabel>> \o query \o <<RagInstructions>>

\* the f-string of generate_response
RagPrompt(customer_policy, context, query) ==
    <<RagIntro, RagPolicyLabel>> \o customer_policy \o <<RagContextLabel>> \o context
        \o <<RagQuestionLabel>> \o query \o <<RagInstructions>>

RagApology == <<"Sorry, I encountered an error generating a response.">>

\* variant: without the try/except
rag_generate_response_NoExcept(query, context, customer_policy, env) ==
    IF ~connected
    THEN [ret |-> _generate_demo_response(query, context), raised |-> FALSE, calls |-> <<>>,
          prompt |-> <<>>]
    ELSE LET prompt == RagPrompt(customer_policy, context, query)
             response == BedrockInvokeModel(prompt, env)
         IN  [ret |-> IF response.raised THEN [response |-> RagApology]
                      ELSE [response |-> response.ret.content[1].text,
                            model_used |-> "Claude 3.5 Haiku", timestamp |-> "now"],
              raised |-> response.raised, calls |-> response.calls, prompt |-> <<prompt>>]

rag_generate_response(query, context, customer_policy, env) ==
    IF ~connected
    THEN [ret |-> _generate_demo_response(query, context), raised |-> FALSE, calls |-> <<>>,
          prompt |-> <<>>]
    ELSE LET prompt == RagPrompt(customer_policy, context, query)
             response == BedrockInvokeModel(prompt, env)
         IN  [ret |-> IF response.raised THEN [response |-> RagApology]
                      ELSE [response |-> response.ret.content[1].text,
                            model_used |-> "Claude 3.5 Haiku", timestamp |-> "now"],
              raised |-> FALSE, calls |-> response.calls, prompt |-> <<prompt>>]

(* ------------- rag_system.py: RAGInsuranceAssistant -------------------- *)
policies ==
    [john_doe   |-> <<"Policy Number: POL-123456 ... Deductible: $500 ...">>,
     jane_smith |-> <<"Policy Number: POL-789012 ... Deductible: $250 ...">>]

_get_customer_policy(username) == Get(policies, username, <<"No policy found for this user.">>)

ChatMaxResults == 3
ChatApology == <<"I apologize, but I encountered an error processing your request. Please try again.">>

\* variant: the sources quote the whole text
ChatSources_WholeText(retrieved_docs) ==
    [i \in 1..Len(retrieved_docs) |->
        [title   |-> Get(Get(retrieved_docs[i], "metadata", <<>>), "source", "Unknown"),
         content |-> retrieved_docs[i].content.text \o <<"...">>,
         score   |-> Get(retrieved_docs[i], "score", 0)]]

ChatSources(retrieved_docs) ==
    [i \in 1..Len(retrieved_docs) |->
        [title   |-> Get(Get(retrieved_docs[i], "metadata", <<>>), "source", "Unknown"),
         content |-> Prefix(retrieved_docs[i].content.text, SourceChars) \o <<"...">>,
         score   |-> Get(retrieved_docs[i], "score", 0)]]

\* the files of the uploader: name <<stem, suffix>> and the text extract_text finds in
\* the file, '' for a scanned pdf
RagFiles == {[name |-> <<"policy", ".txt">>, text |-> <<"policy text">>],
             [name |-> <<"scan", ".pdf">>, text |-> <<>>]}
RagUploads == {f \in SeqUpTo(RagFiles, MaxFiles) : \A i, j \in 1..Len(f) : i # j => f[i] # f[j]}
\* whether the temporary file can be written, whether s3 upload_file succeeds, and
\* whether os.unlink can remove the temporary file
RagEnvs == [saveOk : BOOLEAN, putOk : BOOLEAN, unlinkOk : BOOLEAN]
\* streamlit_app.py: os.getenv('S3_BUCKET', 'your-documents-bucket')
S3_BUCKET == "your-documents-bucket"
\* datetime.now().strftime('%Y/%m/%d')
Today == "2024/01/15"

DocumentKey(file_name) == <<"documents/", Today, "/">> \o file_name

\* DocumentProcessor.extract_text: the text of the file, '' when extraction fails
extract_text(file) == file.text

\* EnhancedKnowledgeBaseManager.upload_document, on the store bucket
upload_document(file, file_name, bucket_name, bucket, env) ==
    LET text_content == extract_text(file)
        s3_key == DocumentKey(file_name)
    IN  IF ~connected THEN [ret |-> TRUE, raised |-> FALSE, s3 |-> bucket, calls |-> <<>>]
        ELSE IF ~TruthyText(text_content)
        THEN [ret |-> FALSE, raised |-> FALSE, s3 |-> bucket, calls |-> <<>>]
        ELSE [ret |-> env.putOk, raised |-> FALSE,
              s3 |-> IF env.putOk
                     THEN [k \in DOMAIN bucket \cup {s3_key} |->
                              IF k = s3_key THEN Encode(text_content) ELSE bucket[k]]
                     ELSE bucket,
              calls |-> <<Call("s3.upload_file", s3_key, env.putOk)>>]

\* the loop of process_uploaded_files from file i on; acc holds results, store and calls
RECURSIVE ProcessFrom(_, _, _, _, _)
ProcessFrom(uploaded_files, i, bucket_name, env, acc) ==
    IF i > Len(uploaded_files) THEN acc
    ELSE LET uploaded_file == uploaded_files[i]
             up == IF TruthyId(bucket_name) /\ connected
                   THEN upload_document(uploaded_file, uploaded_file.name, bucket_name,
                                        acc.s3, env)
                   ELSE [ret |-> Len(extract_text(uploaded_file)) > 0, raised |-> FALSE,
                         s3 |-> acc.s3, calls |-> <<>>]
             results == acc.ret
             \* the except branch of the loop body
             caught(a) ==
                [a EXCEPT !.ret.failed = Append(@, uploaded_file.name \o <<": ", "exception">>)]
             recorded ==
                [ret |-> [successful |-> IF up.ret
                                         THEN Append(results.successful, uploaded_file.name)
                                         ELSE results.successful,
                          failed |-> IF up.ret THEN results.failed
                                     ELSE Append(results.failed, uploaded_file.name),
                          total_processed |-> results.total_processed + 1],
                 raised |-> FALSE, s3 |-> up.s3, calls |-> acc.calls \o up.calls]
             next == IF ~env.saveOk THEN caught(acc)
                     ELSE IF ~env.unlinkOk THEN caught(recorded)
                     ELSE recorded
         IN  ProcessFrom(uploaded_files, i + 1, bucket_name, env, next)

process_uploaded_files(uploaded_files, bucket_name, env) ==
    ProcessFrom(uploaded_files, 1, bucket_name, env,
                [ret |-> [successful |-> <<>>, failed |-> <<>>, total_processed |-> 0],
                 raised |-> FALSE, s3 |-> s3, calls |-> <<>>])

\* the "Upload Documents" button of streamlit_app.py, shown when files are selected
UploadDocuments ==
    /\ app = "rag" /\ pc = "idle" /\ pc' = "returned"
    /\ \E uploaded_files \in RagUploads \ {<<>>}, env \in RagEnvs :
         LET r == process_uploaded_files(uploaded_files, S3_BUCKET, env)
         IN  /\ s3' = r.s3
             /\ op' = OpOf("process_uploaded_files", [uploaded_files |-> uploaded_files], r)
    /\ UNCHANGED <<app, environ, remoteJob, policy_docs, job_id, status, pollLog, fetches,
                   connected, conversation_history, pinned>>

\* variant: the history keeps the latest turn only
StoreTurn_KeepsLast(history, turn) == <<turn>>
\* self.conversation_history.append({...})
StoreTurn(history, turn) == Append(history, turn)

chat(query, username, env) ==
    LET rd == retrieve_documents(query, ChatMaxResults, env)
        retrieved_docs == rd.ret
        joins == ~rd.raised /\ AllHaveText(retrieved_docs)
        context == Join(<<RagSeparator>>, Texts(retrieved_docs))
        customer_policy == _get_customer_policy(username)
        g == IF joins THEN rag_generate_response(query, context, customer_policy, env)
             ELSE [ret |-> None, raised |-> TRUE, calls |-> <<>>, prompt |-> <<>>]
        turn == [query |-> query, response |-> g.ret.response, timestamp |-> "now",
                 sources |-> ChatSources(retrieved_docs)]
    IN  IF g.raised
        THEN [ret |-> [response |-> ChatApology, sources |-> <<>>, model_used |-> "Error",
                       retrieved_docs_count |-> 0],
              raised |-> FALSE, conversation_history |-> conversation_history,
              calls |-> rd.calls \o g.calls,
              docs |-> IF rd.raised THEN <<>> ELSE <<retrieved_docs>>, composed |-> <<>>]
        ELSE [ret |-> [response |-> g.ret.response, sources |-> turn.sources,
                       model_used |-> Get(g.ret, "model_used", "Unknown"),
                       retrieved_docs_count |-> Len(retrieved_docs)],
              raised |-> FALSE, conversation_history |-> StoreTurn(conversation_history, turn),
              calls |-> rd.calls \o g.calls, docs |-> <<retrieved_docs>>,
              composed |-> IF g.prompt = <<>> THEN <<>>
                           ELSE <<Composition("rag", customer_policy, retrieved_docs, query,
                                              g.prompt[1])>>]

\* words a customer types to the demo assistant
Q_hello == <<"h", "e", "l", "l", "o">>
Q_Rental == <<"R", "e", "n", "t", "a", "l">>
Q_claims == <<"c", "l", "a", "i", "m", "s">>
Q_accidents == <<"a", "c", "c", "i", "d", "e", "n", "t", "s">>
\* queries without a keyword (hello, covered), with one keyword inside a longer or
\* capitalised word, and with two keywords in either order
DemoChatQueries ==
    {Q_hello, W_covered, Q_Rental, Q_accidents, Q_hello \o <<" ">> \o W_coverage,
     Q_claims \o <<" ">> \o Q_Rental, Q_Rental \o <<" ">> \o Q_claims}
\* the text of a query matters to the assistant only in demo mode
ChatQueries == IF connected THEN Queries ELSE DemoChatQueries

\* one chat input of streamlit_app.py
Chat ==
    /\ app = "rag" /\ pc = "idle" /\ pc' = "returned"
    /\ Len(conversation_history) < MaxHistory
    /\ \E query \in ChatQueries, username \in Usernames, env \in ServiceEnvs :
         LET r == chat(query, username, env)
         IN  /\ conversation_history' = r.conversation_history
             /\ op' = OpOf("chat", [query |-> query, username |-> username], r)
    /\ UNCHANGED <<app, environ, s3, remoteJob, policy_docs, job_id, status, pollLog,
                   fetches, connected, pinned>>

\* variant: the first turn survives
clear_history_KeepsFirst == Prefix(conversation_history, 1)
\* self.conversation_history = []
clear_history == <<>>

\* the "Clear History" button; held is the number of turns the history held
ClearHistory ==
    /\ app = "rag" /\ pc = "idle" /\ pc' = "returned"
    /\ conversation_history' = clear_history
    /\ op' = OpOf("clear_history", [held |-> Len(conversation_history)], Nothing)
    /\ UNCHANGED <<app, environ, s3, remoteJob, policy_docs, job_id, status, pollLog,
                   fetches, connected, pinned>>

(* ---------------- kb_data_builder.py: KnowledgeBaseRetriever ----------- *)
RetrieverMaxResults == 5

retrieve(query, max_results, env) ==
    LET response == BedrockRetrieve(query, max_results, env)
    IN  [ret |-> IF response.raised THEN <<>> ELSE response.ret.retrievalResults,
         raised |-> FALSE, calls |-> response.calls]

retriever_retrieve_and_generate(query, env) ==
    LET response == BedrockRetrieveAndGenerate(query, env)
    IN  [ret |-> IF response.raised THEN <<"Error generating response">>
                 ELSE response.ret.output.text,
         raised |-> FALSE, calls |-> response.calls]

test_query == <<"What is covered under motor insurance?">>

\* after the loop: on COMPLETE, the test retrieval and the test RAG call
BuilderTest ==
    /\ app = "kb_data_builder" /\ pc = "after_loop"
    /\ pc' = "finished"
    /\ IF status = "COMPLETE"
       THEN \E env \in ServiceEnvs :
              LET results == retrieve(test_query, RetrieverMaxResults, env)
                  response == IF results.raised
                              THEN [ret |-> None, raised |-> TRUE, calls |-> <<>>]
                              ELSE retriever_retrieve_and_generate(test_query, env)
              IN  op' = OpOf("retrieve", [query |-> test_query],
                             [ret |-> [results |-> results.ret, response |-> response.ret],
                              raised |-> response.raised,
                              calls |-> results.calls \o response.calls,
                              docs |-> <<results.ret>>])
       ELSE op' = op
    /\ UNCHANGED <<app, environ, s3, remoteJob, policy_docs, job_id, status, pollLog,
                   fetches, connected, conversation_history, pinned>>

(* ------------------ demo_app.py: MockInsuranceAssistant ---------------- *)
\* The strings of the demo assistant are sequences of characters, so that `in` and
\* lower() are computed on them.
\* most words of a query
MaxWords == 2
\* the words a customer types: Rental, scarce, Profile, uncovered, repay, hello
DemoWords ==
    {<<"R", "e", "n", "t", "a", "l">>, <<"s", "c", "a", "r", "c", "e">>,
     <<"P", "r", "o", "f", "i", "l", "e">>, <<"u", "n", "c", "o", "v", "e", "r", "e", "d">>,
     <<"r", "e", "p", "a", "y">>, <<"h", "e", "l", "l", "o">>}
\* queries: up to MaxWords words separated by blanks
DemoQueries ==
    {Join(<<" ">>, ws) : ws \in UNION {[1..n -> DemoWords] : n \in 1..MaxWords}}
JohnDoe == <<"j", "o", "h", "n", "_", "d", "o", "e">>
\* john_doe, john_smith, and a name that holds john_doe inside: xjohn_doe
DemoUsernames ==
    {JohnDoe,
     <<"j", "o", "h", "n", "_", "s", "m", "i", "t", "h">>,
     <<"x", "j", "o", "h", "n", "_", "d", "o", "e">>}

MOCK_KB_RESPONSES ==
    [deductible |-> [deductible \in {"$500", "$250"} |->
                        <<"Your deductible is the amount you pay out of pocket ... Based on your policy, your deductible is ", deductible, ".">>],
     rental     |-> [rental_limit \in {"$30", "$50"} |->
                        <<"Rental car coverage provides a temporary replacement vehicle ... rental coverage up to ", rental_limit, " per day.">>],
     claim      |-> <<"To file a claim: 1) Contact us immediately at 1-800-CLAIMS, ...">>,
     coverage   |-> <<"Your policy includes comprehensive, collision, and liability coverage. ...">>,
     default    |-> <<"I can help you with questions about your insurance policy ... What specific information would you like to know?">>]

\* MockInsuranceAssistant.generate_response
mock_generate_response(query, username) ==
    LET deductible == IF IsSubstring(JohnDoe, username) THEN "$500" ELSE "$250"
        rental_limit == IF IsSubstring(JohnDoe, username) THEN "$30" ELSE "$50"
        query_lower == StrLower(query)
        response ==
            IF AnyIn(<<W_deductible, W_pay, W_cost>>, query_lower)
            THEN MOCK_KB_RESPONSES.deductible[deductible]
            ELSE IF AnyIn(<<W_rental, W_car, W_replacement>>, query_lower)
            THEN MOCK_KB_RESPONSES.rental[rental_limit]
            ELSE IF AnyIn(<<W_claim, W_file, W_accident>>, query_lower)
            THEN MOCK_KB_RESPONSES.claim
            ELSE IF AnyIn(<<W_coverage, W_covered, W_include>>, query_lower)
            THEN MOCK_KB_RESPONSES.coverage
            ELSE MOCK_KB_RESPONSES.default
    IN  [ret |-> [response |-> response,
                  sources |-> <<"Policy Document", "General Insurance Terms">>,
                  timestamp |-> "now"],
         raised |-> FALSE, calls |-> <<>>]

\* one chat input of demo_app.py
DemoChat ==
    /\ app = "demo_app" /\ pc = "idle" /\ pc' = "returned"
    /\ \E query \in DemoQueries, username \in DemoUsernames :
         op' = OpOf("generate_response", [query |-> query, username |-> username],
                    mock_generate_response(query, username))
    /\ UNCHANGED <<app, environ, s3, remoteJob, policy_docs, job_id, status, pollLog,
                   fetches, connected, conversation_history, pinned>>

(* --------------------------- the caller -------------------------------- *)
\* the caller takes the result; the program waits for the next request
Return ==
    /\ app \in {"api", "ingest_api", "streamlit_insurance", "rag", "demo_app"}
    /\ pc = "returned"
    /\ pc' = "idle"
    /\ op' = NoOp
    /\ UNCHANGED <<app, environ, s3, remoteJob, policy_docs, job_id, status, pollLog,
                   fetches, connected, conversation_history, pinned>>

\* another writer of the customer bucket (the upload API, an operator) stores a policy
\* while the Streamlit assistant waits for its next input
PolicyChange ==
    /\ app = "streamlit_insurance" /\ pc = "idle"
    /\ \E username \in Usernames, text \in PolicyTexts :
         /\ s3' = [k \in DOMAIN s3 \cup {CustomerPolicyKey(username)} |->
                      IF k = CustomerPolicyKey(username) THEN Encode(text) ELSE s3[k]]
         /\ s3' # s3
    /\ UNCHANGED <<app, environ, pc, remoteJob, policy_docs, job_id, status, pollLog,
                   fetches, connected, conversation_history, op, pinned>>

NoComposition == Composition("none", <<>>, <<>>, <<>>, <<>>)

\* remember the prompt composition of the operation that just returned
PinComposition ==
    /\ pc = "returned" /\ op.composed # <<>>
    /\ pinned' = op.composed[1]
    /\ UNCHANGED <<app, environ, pc, s3, remoteJob, policy_docs, job_id, status, pollLog,
                   fetches, connected, conversation_history, op>>

(* ------------------------------ Init, Next ----------------------------- *)
ConfigNames == {"KNOWLEDGE_BASE_ID", "DATA_SOURCE_ID", "POLICY_BUCKET",
                "CUSTOMER_POLICY_BUCKET", "UPLOADS_BUCKET"}
FullConfig ==
    [n \in ConfigNames |-> CASE n = "KNOWLEDGE_BASE_ID" -> "kb-1"
                             [] n = "DATA_SOURCE_ID" -> "ds-1"
                             [] n = "POLICY_BUCKET" -> "policy-bucket"
                             [] n = "CUSTOMER_POLICY_BUCKET" -> "customer-bucket"
                             [] n = "UPLOADS_BUCKET" -> None]
\* the configuration values each program reads
Reads(a) ==
    CASE a = "api" -> {"KNOWLEDGE_BASE_ID", "CUSTOMER_POLICY_BUCKET"}
      [] a = "ingest_api" -> {"KNOWLEDGE_BASE_ID", "DATA_SOURCE_ID", "POLICY_BUCKET"}
      [] a = "setup_kb" -> {"POLICY_BUCKET"}
      [] a = "streamlit_insurance" -> {"KNOWLEDGE_BASE_ID", "CUSTOMER_POLICY_BUCKET"}
      [] OTHER -> {}
\* complete, or with one of the values the program reads unset
Environs(a) == {FullConfig} \cup {[FullConfig EXCEPT ![n] = None] : n \in Reads(a)}

\* the customer policies stored before the program starts
InitialStores ==
    {s \in UNION {[K -> {Encode(t) : t \in PolicyTexts}] :
                    K \in SUBSET {CustomerPolicyKey(u) : u \in Usernames}} : TRUE}

\* the pdf files of ./policy_docs, in glob order
InitialDirs ==
    {[exists |-> FALSE, pdfs |-> <<>>]} \cup
    {[exists |-> TRUE, pdfs |-> p] :
        p \in {q \in SeqUpTo(PdfNames, MaxFiles) : \A i, j \in 1..Len(q) : i # j => q[i] # q[j]}}

StartOf(a) ==
    CASE a = "kb_data_builder" -> "create_kb"
      [] a = "setup_kb" -> "ingest"
      [] OTHER -> "idle"

Init ==
    /\ app \in Apps
    /\ environ \in Environs(app)
    /\ pc = StartOf(app)
    /\ s3 \in IF app \in {"api", "streamlit_insurance"} THEN InitialStores ELSE {<<>>}
    /\ remoteJob = "NONE"
    /\ policy_docs \in IF app \in {"ingest_api", "setup_kb"} THEN InitialDirs
                       ELSE {[exists |-> FALSE, pdfs |-> <<>>]}
    /\ job_id = None
    /\ status = "UNSET"
    /\ pollLog = <<>>
    /\ fetches = 0
    /\ connected \in IF app = "rag" THEN BOOLEAN ELSE {TRUE}
    /\ conversation_history = <<>>
    /\ op = NoOp
    /\ pinned = NoComposition

Next ==
    \/ HandleQuery
    \/ HandleUpload
    \/ PresignedPut
    \/ HandlePolicyIngestion
    \/ LoadPolicy
    \/ QueryPolicy
    \/ Chat
    \/ ClearHistory
    \/ UploadDocuments
    \/ DemoChat
    \/ Return
    \/ PolicyChange
    \/ JobProgress
    \/ BuilderCreate
    \/ BuilderStartJob
    \/ BuilderCheckStatus
    \/ BuilderSleep
    \/ BuilderTest
    \/ SetupIngest
    \/ SetupStatus
    \/ SetupSleep
    \/ SetupReport

Spec == Init /\ [][Next]_vars

\* the two prompt composers, fully configured and connected, with an observer that
\* remembers one earlier prompt composition
PinInit ==
    /\ Init
    /\ app \in {"api", "rag"}
    /\ environ = FullConfig
    /\ connected
    /\ app = "api" => DOMAIN s3 = {CustomerPolicyKey("john_doe")}
PinNext == HandleQuery \/ Chat \/ ClearHistory \/ Return \/ PinComposition
PinSpec == PinInit /\ [][PinNext]_vars

(* ------------------------------ properties ----------------------------- *)
IsTerminalFetch(e) == e[1] = "fetch" /\ e[2] \in Terminal
Failed(api) == \E i \in 1..Len(op.calls) : op.calls[i].api = api /\ ~op.calls[i].ok
Called(api) == \E i \in 1..Len(op.calls) : op.calls[i].api = api
RetrieveApi == "bedrock-agent-runtime.retrieve"
GenerateApis == {"bedrock-agent-runtime.retrieve_and_generate", "bedrock-runtime.invoke_model"}
Positions(text, token) == {i \in 1..Len(text) : text[i] = token}
NoStoredPolicy(username) == CustomerPolicyKey(username) \notin DOMAIN s3
QueryUsername == Get(op.args, "username", "john_doe")

\* C1: in both scripts a status fetch that returns COMPLETE or FAILED is the last
\* polling event: no status fetch and no sleep follows it, and the loop has been left.
C1_ExitOnFirstTerminal ==
    \A i \in 1..Len(pollLog) :
        IsTerminalFetch(pollLog[i]) => i = Len(pollLog) /\ pc \in {"after_loop", "finished"}

C1_Witness ==
    /\ app = "setup_kb" /\ pc = "finished" /\ Len(pollLog) >= 3
    /\ IsTerminalFetch(pollLog[Len(pollLog)])
    /\ pollLog[Len(pollLog) - 1] = Sleep30

\* C2: the polling loop is left only on a terminal status: whatever the number of
\* fetches, a script that is past its loop has fetched COMPLETE or FAILED, so without
\* a terminal report it polls on.
C2_ExitOnlyOnTerminal ==
    (pc \in {"after_loop", "finished"} /\ fetches > 0) => status \in Terminal

C2_Witness ==
    /\ fetches = MaxCount /\ pc = "sleep" /\ status \notin Terminal
    /\ \A i \in 1..Len(pollLog) : ~IsTerminalFetch(pollLog[i])

\* C3 as stated: for a customer without a stored policy every variant's lookup
\* yields the empty string and raises nothing.
C3_Original ==
    /\ ~op.raised
    /\ (op.name = "handle_query" /\ op.composed # <<>> /\ NoStoredPolicy(QueryUsername))
          => op.composed[1].customer_policy = <<>>
    /\ (op.name = "get_customer_policy" /\ NoStoredPolicy(op.args.username))
          => op.ret = <<>>
    /\ (op.name = "query_policy" /\ NoStoredPolicy(op.args.username))
          => op.args.customer_policy = <<>>
    /\ (op.name = "chat" /\ op.composed # <<>> /\ op.args.username \notin DOMAIN policies)
          => op.composed[1].customer_policy = <<>>

\* C3 amended: for a customer without a stored policy the lookup raises nothing; it
\* yields the empty string in InsurancePolicyQueryHandler and InsuranceAssistant, and
\* the text "No policy found for this user." in RAGInsuranceAssistant.
C3_MissingPolicy ==
    /\ op.name \in {"handle_query", "get_customer_policy", "query_policy", "chat"}
          => ~op.raised
    /\ (op.name = "handle_query" /\ op.composed # <<>> /\ NoStoredPolicy(QueryUsername))
          => op.composed[1].customer_policy = <<>>
    /\ (op.name = "get_customer_policy" /\ NoStoredPolicy(op.args.username))
          => op.ret = <<>>
    /\ (op.name = "query_policy" /\ NoStoredPolicy(op.args.username))
          => op.args.customer_policy = <<>>
    /\ (op.name = "chat" /\ op.composed # <<>> /\ op.args.username \notin DOMAIN policies)
          => op.composed[1].customer_policy = <<"No policy found for this user.">>

C3_Witness ==
    /\ op.name = "chat" /\ op.args.username \notin DOMAIN policies
    /\ op.composed # <<>>
    /\ op.composed[1].customer_policy # <<>>

\* C4: a query whose retrieval returned zero passages raises nothing, composes a
\* prompt whose context section is empty, still calls the generation endpoint and
\* returns with an empty source list.
C4_EmptyRetrieval ==
    (op.name \in {"handle_query", "chat"} /\ op.docs = << <<>> >> /\ Called(RetrieveApi)) =>
        /\ ~op.raised
        /\ op.composed # <<>>
        /\ LET c == op.composed[1]
               from == IF c.composer = "query" THEN QueryContextLabel ELSE RagContextLabel
               to == IF c.composer = "query" THEN QueryQuestionLabel ELSE RagQuestionLabel
           IN  \E i \in 1..Len(c.prompt) - 1 : c.prompt[i] = from /\ c.prompt[i + 1] = to
        /\ \E api \in GenerateApis : Called(api)
        /\ (IF op.name = "chat" THEN op.ret.sources ELSE op.ret.data.sources) = <<>>

C4_Witness ==
    /\ op.name = "handle_query" /\ op.docs = << <<>> >>
    /\ ~Failed(RetrieveApi)
    /\ op.ret.data.response \in Answers

\* C5: when the retrieval call fails the retrieval client hands its caller the empty
\* list and no exception: the caller goes on with zero passages.
C5_RetrievalFailure ==
    Failed(RetrieveApi) =>
        /\ ~op.raised
        /\ op.docs = << <<>> >>
        /\ op.name \in {"handle_query", "chat"} =>
              op.composed # <<>> /\ op.composed[1].docs = <<>>
        /\ op.name = "retrieve" => op.ret.results = <<>>

C5_Witness ==
    /\ op.name = "retrieve" /\ Failed(RetrieveApi) /\ op.ret.results = <<>>
    /\ Len(op.calls) = 2

\* C6: when the generation call fails the response is the client's fixed text,
\* whatever the query and the failure, and no exception reaches the caller.
C6_GenerationFailure ==
    (\E api \in GenerateApis : Failed(api)) =>
        /\ ~op.raised
        /\ op.name = "handle_query" => op.ret.data.response = QueryApology
        /\ op.name = "chat" => op.ret.response = RagApology
        /\ op.name = "query_policy" => op.ret.response = LibApology
        /\ op.name = "retrieve" => op.ret.response = <<"Error generating response">>

C6_Witness ==
    /\ op.name = "chat" /\ Failed("bedrock-runtime.invoke_model")
    /\ op.ret.response = RagApology
    /\ Len(conversation_history) = MaxHistory

\* C7: within one operation no external call is issued twice for the same item; a
\* failed call is not followed by the same call.
C7_NoRetry ==
    \A i, j \in 1..Len(op.calls) :
        i < j => ~(op.calls[i].api = op.calls[j].api /\ op.calls[i].arg = op.calls[j].arg)

C7_Witness ==
    /\ op.name = "handle_policy_ingestion" /\ Len(op.calls) = 3
    /\ ~op.calls[1].ok /\ ~op.calls[3].ok

\* C8: a public operation in which an external call failed returns normally, with a
\* result; no exception leaves it.
C8_NoExceptionEscapes ==
    (/\ op.name \in {"handle_query", "handle_upload", "handle_policy_ingestion", "chat"}
     /\ \E i \in 1..Len(op.calls) : ~op.calls[i].ok) =>
        /\ ~op.raised
        /\ op.name = "handle_upload" => op.ret = [error |-> "exception", status |-> 500]
        /\ op.name = "handle_query" => op.ret.success /\ "response" \in DOMAIN op.ret.data
        /\ op.name = "chat" => "response" \in DOMAIN op.ret
        /\ op.name = "handle_policy_ingestion" =>
              "error" \in DOMAIN op.ret \/ "job_status" \in DOMAIN op.ret
                  \/ "job_id" \in DOMAIN op.ret

C8_Witness ==
    /\ op.name = "handle_upload" /\ Len(op.calls) = 1 /\ ~op.calls[1].ok
    /\ op.ret.status = 500

\* C9: two prompt compositions by the same composer with the same customer policy, the
\* same passages in the same order and the same question give the same prompt, whatever
\* was asked before and whatever the conversation history holds.
C9_Deterministic ==
    (/\ op.composed # <<>>
     /\ pinned.composer = op.composed[1].composer
     /\ pinned.customer_policy = op.composed[1].customer_policy
     /\ pinned.docs = op.composed[1].docs
     /\ pinned.query = op.composed[1].query) => pinned.prompt = op.composed[1].prompt

C9_Witness ==
    /\ op.name = "chat" /\ op.composed # <<>> /\ pinned.composer = "rag"
    /\ pinned.docs = op.composed[1].docs /\ pinned.query = op.composed[1].query
    /\ pinned.customer_policy = op.composed[1].customer_policy
    /\ Len(op.composed[1].docs) = 2
    /\ Len(conversation_history) = 2
    /\ conversation_history[1].query # conversation_history[2].query

ResultBound ==
    CASE op.name = "handle_query" -> QueryMaxResults
      [] op.name = "chat" -> ChatMaxResults
      [] OTHER -> RetrieverMaxResults
Retrievers == {"handle_query", "chat", "retrieve"}

IsChatStep == pc = "idle" /\ pc' = "returned" /\ op'.name = "chat"
\* the turn a chat call stores: its query, the response and the sources it returned
TurnOf(o) ==
    [query |-> o.args.query, response |-> o.ret.response, timestamp |-> "now",
     sources |-> o.ret.sources]
EndsInErrorReturn(o) == o.ret.model_used = "Error"
\* the response is an answer of the model or of the demo table, not an apology
IsGeneratedAnswer(o) == o.ret.response \notin {ChatApology, RagApology}

\* C12 as stated: a chat call that returns a generated answer appends exactly one turn
\* and every other chat call leaves the history as it was, so that the length of the
\* history is the number of chat calls that returned a generated answer.
C12_Original ==
    [][IsChatStep =>
        IF IsGeneratedAnswer(op')
        THEN conversation_history' = Append(conversation_history, TurnOf(op'))
        ELSE conversation_history' = conversation_history]_vars

\* C12: every chat call that does not end in chat's error return appends exactly one
\* turn at the end of conversation_history, holding the call's query, the response
\* returned to the caller (the apology of generate_response included), a timestamp and
\* the sources returned; the earlier turns stay as they were and in order; a chat call
\* that ends in the error return leaves the history unchanged.
C12_AppendsOneTurn ==
    [][IsChatStep =>
        IF EndsInErrorReturn(op')
        THEN conversation_history' = conversation_history
        ELSE conversation_history' = Append(conversation_history, TurnOf(op'))]_vars
\* a second turn holding the apology of a failed model call, after a generated answer
C12_Witness ==
    /\ op.name = "chat" /\ pc = "returned"
    /\ Len(conversation_history) = 2
    /\ conversation_history[1].response \in Answers
    /\ conversation_history[2] = TurnOf(op)
    /\ op.ret.response = RagApology

IsClearStep == pc = "idle" /\ pc' = "returned" /\ op'.name = "clear_history"
IsPrefixOf(a, b) == Len(a) <= Len(b) /\ a = SubSeq(b, 1, Len(a))

\* C13: clear_history leaves the history empty whatever it held, also when it was
\* empty already (clearing twice equals clearing once), and every other step keeps all
\* the turns the history holds, in order.
C13_OnlyClearEmpties ==
    [][/\ IsClearStep => conversation_history' = <<>>
       /\ ~IsClearStep => IsPrefixOf(conversation_history, conversation_history')]_vars
\* a clear of a history of two turns
C13_Witness ==
    /\ op.name = "clear_history" /\ pc = "returned"
    /\ op.args.held >= 2
    /\ conversation_history = <<>>

\* the operations that answer a customer's question with the customer's policy
IsPolicyQuery ==
    /\ pc = "returned"
    /\ \/ op.name = "handle_query" /\ TruthyText(Get(op.args, "query", <<>>))
       \/ op.name \in {"query_policy", "chat"}
\* the get_object calls of the operation for the customer's policy
PolicyFetches ==
    {i \in 1..Len(op.calls) : /\ op.calls[i].api = "s3.get_object"
                               /\ op.calls[i].arg = CustomerPolicyKey(QueryUsername)}
\* the text stored for the customer when the operation ran
StoredPolicy == Decode(s3[CustomerPolicyKey(QueryUsername)]).ret
\* the policy text the operation passed on as the customer's policy, if it passed one
PolicyContexts ==
    IF op.name = "query_policy" THEN {op.args.customer_policy}
    ELSE {op.composed[i].customer_policy : i \in 1..Len(op.composed)}
\* the operation fetched the policy once, and used the stored text when the fetch succeeded
FetchedFromStorage ==
    /\ Cardinality(PolicyFetches) = 1
    /\ \A i \in PolicyFetches : op.calls[i].ok => PolicyContexts \subseteq {StoredPolicy}

\* C14 as stated: each of the three query operations fetches the customer's policy from
\* object storage on every query and uses the text stored at that moment.
C14_Original == IsPolicyQuery => FetchedFromStorage

\* C14: handle_query and InsuranceAssistant.query_policy fetch the customer's policy
\* from object storage once per query and use the text stored at that moment, so a
\* changed policy is seen by the next query; RAGInsuranceAssistant.chat makes no
\* storage call and uses the entry of its built-in table whatever is stored.
C14_FetchedPerQuery ==
    IsPolicyQuery =>
        IF op.name = "chat"
        THEN /\ PolicyFetches = {}
             /\ PolicyContexts \subseteq {_get_customer_policy(QueryUsername)}
        ELSE FetchedFromStorage
\* a query answered with a policy text that only a later upload could have stored
C14_Witness ==
    /\ IsPolicyQuery /\ op.name = "handle_query"
    /\ PolicyContexts = {<<"policyB">>}
    /\ StoredPolicy = <<"policyB">>
\* a connected chat: the prompt holds the table's policy, and no storage call was made
C14_ChatWitness ==
    /\ IsPolicyQuery /\ op.name = "chat" /\ op.composed # <<>>
    /\ PolicyContexts = {policies.john_doe} /\ PolicyFetches = {}

PutApi == "s3.put_object"
StartApi == "bedrock-agent.start_ingestion_job"
StatusApi == "bedrock-agent.get_ingestion_job"
PolicyDocsStored == {k \in DOMAIN s3 : k[1] = "policy_docs/"}
\* a job exists only with uploaded policy documents in the bucket, and an operation
\* that starts a job has finished its uploads before, at least one of them with success
StartAfterUpload ==
    /\ remoteJob # "NONE" => PolicyDocsStored # {}
    /\ \A i \in 1..Len(op.calls) :
         op.calls[i].api = StartApi =>
            /\ \E j \in 1..(i - 1) : op.calls[j].api = PutApi /\ op.calls[j].ok
            /\ \A j \in 1..Len(op.calls) : op.calls[j].api = PutApi => j < i
\* the status is fetched for the id of a job that was started
StatusOfStartedJob ==
    /\ \A i \in 1..Len(op.calls) :
         op.calls[i].api = StatusApi => remoteJob # "NONE" /\ op.calls[i].arg = TheJobId
    /\ fetches > 0 => remoteJob # "NONE" /\ job_id = TheJobId

\* C15 as stated: in every ingestion flow a job is started only after the upload of
\* local files has finished with at least one file uploaded, and the status is fetched
\* only for a job id obtained from a successful start.
C15_Original == StartAfterUpload /\ StatusOfStartedJob

\* C15: handle_policy_ingestion's ingest action (and setup_kb, which calls it) starts
\* the job only after its uploads have finished with at least one file uploaded; setup_kb
\* and kb_data_builder fetch the status only for the job id a successful start
\* returned. kb_data_builder uploads nothing before it starts its job, and the status
\* action of handle_policy_ingestion fetches the status for any non-empty job_id.
C15_UploadTriggerPoll ==
    /\ app \in {"ingest_api", "setup_kb"} => StartAfterUpload
    /\ app \in {"setup_kb", "kb_data_builder"} => StatusOfStartedJob
    /\ app = "ingest_api" =>
          \A i \in 1..Len(op.calls) : op.calls[i].api = StatusApi => TruthyId(op.args.job_id)
\* setup_kb has uploaded, started the job and fetched its status
C15_Witness ==
    /\ app = "setup_kb" /\ PolicyDocsStored # {} /\ remoteJob # "NONE"
    /\ job_id = TheJobId /\ fetches > 0
    /\ \E i \in 1..Len(op.calls) : op.calls[i].api = StatusApi /\ op.calls[i].ok
\* kb_data_builder has started its job with nothing uploaded
C15_BuilderWitness == app = "kb_data_builder" /\ remoteJob # "NONE" /\ PolicyDocsStored = {}

IsFetch(e) == e[1] = "fetch"
\* the log still starts with the first polling event of the run
LogFromStart == Len(pollLog) < MaxLog

\* C16 as stated: every status fetch, the first one included, directly follows a sleep
\* of 30 seconds.
C16_Original ==
    \A i \in 1..Len(pollLog) :
        IsFetch(pollLog[i]) =>
            IF i > 1 THEN pollLog[i - 1] = Sleep30 ELSE ~LogFromStart

\* C16: every iteration of the polling loop fetches the status first and sleeps 30
\* seconds afterwards unless the loop is left: the first polling event is a fetch with
\* no sleep before it, a sleep directly follows a fetch, and every later fetch
\* directly follows one sleep.
C16_FetchThenSleep ==
    /\ (LogFromStart /\ pollLog # <<>>) => IsFetch(pollLog[1])
    /\ \A i \in 2..Len(pollLog) : IsFetch(pollLog[i]) <=> pollLog[i - 1] = Sleep30
    /\ fetches > 0 => pollLog # <<>>
\* the first two iterations: fetch, sleep, fetch
C16_Witness ==
    /\ fetches = 2 /\ Len(pollLog) = 3
    /\ IsFetch(pollLog[1]) /\ pollLog[2] = Sleep30 /\ IsFetch(pollLog[3])

\* the keys the last operation handed to the storage client, and the keys stored
StorageApis == {"s3.put_object", "s3.get_object", "s3.generate_presigned_url", "s3.upload_file"}
KeysUsed ==
    {op.calls[i].arg : i \in {j \in 1..Len(op.calls) : op.calls[j].api \in StorageApis}}
        \cup DOMAIN s3
\* policy_docs/<name>
IsPolicyDocKey(k) == Len(k) = 2 /\ k[1] = "policy_docs/"
\* customer_policy/<id>.txt, read generously: any key under customer_policy/ ending in .txt
IsCustomerPolicyKey(k) == Len(k) >= 3 /\ k[1] = "customer_policy/" /\ k[Len(k)] = ".txt"
\* uploads/<category>/<id>_<name>
IsUploadKey(k) == Len(k) >= 6 /\ k[1] = "uploads/" /\ k[3] = "/" /\ k[5] = "_"
\* customer_policy/<username>_<filename>, the key get_upload_url presigns for a customer
IsCustomerUploadKey(k) ==
    Len(k) >= 4 /\ k[1] = "customer_policy/" /\ k[2] \in Usernames /\ k[3] = "_"
\* documents/<YYYY>/<MM>/<DD>/<name>
IsDocumentKey(k) == Len(k) >= 4 /\ k[1] = "documents/" /\ k[2] = Today /\ k[3] = "/"

\* C17 as stated: every key written, read or presigned has one of the three shapes.
C17_Original ==
    \A k \in KeysUsed : IsPolicyDocKey(k) \/ IsCustomerPolicyKey(k) \/ IsUploadKey(k)

\* C17: every key written, read or presigned has one of five shapes: the three
\* namespaced ones, customer_policy/<username>_<filename> (presigned by get_upload_url
\* for a customer and written by the holder of that URL only, never by a handler) and
\* documents/<YYYY>/<MM>/<DD>/<name> (written by upload_document of rag_system.py, and
\* only there).
C17_KeyShapes ==
    \A k \in KeysUsed :
        \/ IsPolicyDocKey(k) /\ app \in {"ingest_api", "setup_kb"}
        \/ Len(k) = 3 /\ k = CustomerPolicyKey(k[2])
        \/ IsUploadKey(k) /\ app = "api"
        \/ /\ IsCustomerUploadKey(k) /\ app = "api"
           /\ \A i \in 1..Len(op.calls) :
                  op.calls[i].arg = k => op.calls[i].api = "s3.generate_presigned_url"
        \/ IsDocumentKey(k) /\ app = "rag"
\* a presigned customer key that does not end in .txt
C17_Witness ==
    /\ op.name = "handle_upload"
    /\ \E k \in KeysUsed : IsCustomerUploadKey(k) /\ k[Len(k)] = ".pdf"
\* a document stored by upload_document
C17_DocumentWitness == \E k \in DOMAIN s3 : IsDocumentKey(k)

Unset(n) == environ[n] = None
SomeUnset == \E n \in ConfigNames \ {"UPLOADS_BUCKET"} : Unset(n)
RagGenerateApi == "bedrock-agent-runtime.retrieve_and_generate"
KbNotConfigured == [error |-> "Knowledge Base ID not configured"]
\* an upload request that is refused or fails before any configuration value is used
StopsBeforeStorage ==
    \/ Get(op.ret, "status", 200) = 400
    \/ /\ Get(op.args, "category", "general") = "customer_policy"
       /\ TruthyId(Get(op.args, "username", None))
       /\ EndsWith(op.args.filename, ".txt") /\ Decode(op.args.file_content).raised
\* with a configuration value unset, the handlers of the three APIs and the policy
\* lookup of the Streamlit assistant still issue their external calls
HandlersPassConfigOn ==
    /\ (op.name = "handle_query" /\ TruthyText(Get(op.args, "query", <<>>))) =>
          /\ Called("s3.get_object") /\ Called(RetrieveApi)
          /\ Unset("KNOWLEDGE_BASE_ID") => Called(RagGenerateApi)
    /\ (op.name = "handle_policy_ingestion" /\ Get(op.args, "action", "ingest") = "ingest") =>
          /\ (policy_docs.exists /\ policy_docs.pdfs # <<>>) => Called(PutApi)
          /\ (\E i \in 1..Len(op.calls) : op.calls[i].api = PutApi /\ op.calls[i].ok)
                => Called(StartApi)
    /\ (op.name = "handle_policy_ingestion" /\ Get(op.args, "action", "ingest") = "status"
            /\ TruthyId(Get(op.args, "job_id", None))) => Called(StatusApi)
    /\ (op.name = "handle_upload" /\ ~StopsBeforeStorage) => op.calls # <<>>
    /\ op.name \in {"get_customer_policy", "query_policy"} => Called("s3.get_object")

\* C18 as stated: no operation is stopped by an unset configuration value; each issues
\* its external call.
C18_Original ==
    SomeUnset => /\ HandlersPassConfigOn
                 /\ op.name = "query_policy" => Called(RagGenerateApi)

\* C18: an unset configuration value does not stop the handlers of the query, upload
\* and ingestion APIs or the policy lookup from issuing their external calls; the one
\* validation is in InsuranceKBManager.query_insurance_policy, which with the
\* knowledge-base id unset returns an error and does not call the service.
C18_NoValidation ==
    /\ SomeUnset => HandlersPassConfigOn
    /\ op.name = "query_policy" =>
          IF Unset("KNOWLEDGE_BASE_ID")
          THEN ~Called(RagGenerateApi) /\ op.ret = KbNotConfigured
          ELSE Called(RagGenerateApi)
\* the query handler with the knowledge-base id unset: all three calls were issued
C18_Witness ==
    /\ op.name = "handle_query" /\ Unset("KNOWLEDGE_BASE_ID")
    /\ Called("s3.get_object") /\ Failed(RetrieveApi) /\ Failed(RagGenerateApi)
\* the Streamlit assistant with the knowledge-base id unset: refused without a call
C18_ValidatedWitness ==
    /\ op.name = "query_policy" /\ Unset("KNOWLEDGE_BASE_ID")
    /\ op.ret = KbNotConfigured /\ ~Called(RagGenerateApi)

\* the passages the operation retrieved
RetrievedDocs == IF op.docs = <<>> THEN <<>> ELSE op.docs[1]
\* what the operation returned to its caller
Answer == IF op.name = "handle_query" THEN op.ret.data ELSE op.ret
IsAnswer ==
    \/ op.name = "chat"
    \/ op.name = "handle_query" /\ "data" \in DOMAIN op.ret
EndsInApology == Answer.response \in {ChatApology, QueryApology}
\* c quotes the first 200 characters of text, followed by '...'
QuotesPrefix(c, text) ==
    /\ Len(c) = Min(Len(text), SourceChars) + 1
    /\ c[Len(c)] = "..."
    /\ \A j \in 1..(Len(c) - 1) : c[j] = text[j]
LabelOf(doc, default) ==
    IF "metadata" \in DOMAIN doc /\ "source" \in DOMAIN doc.metadata
    THEN doc.metadata.source ELSE default
ScoreOf(doc) == IF "score" \in DOMAIN doc THEN doc.score ELSE 0
\* one source per retrieved passage, in order, with its quoted text and its label
OneSourcePerPassage(default) ==
    /\ Len(Answer.sources) = Len(RetrievedDocs)
    /\ \A i \in 1..Len(RetrievedDocs) :
         /\ QuotesPrefix(Answer.sources[i].content, RetrievedDocs[i].content.text)
         /\ Answer.sources[i].title = LabelOf(RetrievedDocs[i], default)
SourcesCarryScore ==
    \A i \in 1..Len(Answer.sources) :
        /\ "score" \in DOMAIN Answer.sources[i]
        /\ Answer.sources[i].score = ScoreOf(RetrievedDocs[i])

\* C19 as stated: every answer lists one source per retrieved passage, each with the
\* quoted text, the source label and the relevance score.
C19_Original ==
    (IsAnswer /\ ~EndsInApology) =>
        /\ OneSourcePerPassage(IF op.name = "chat" THEN "Unknown" ELSE "Policy Document")
        /\ SourcesCarryScore
        /\ op.name = "chat" => op.ret.retrieved_docs_count = Len(op.ret.sources)

\* C19: an answer that is not the operation's apology lists one source per retrieved
\* passage, in retrieval order, each with the first 200 characters of the passage
\* followed by '...' and its source label ('Unknown' in chat and 'Policy Document' in
\* the query handler when the passage has none); chat's sources also carry the score
\* (0 when the passage has none), the query handler's sources carry no score; an
\* apology lists no sources; in chat retrieved_docs_count is the number of sources.
C19_Sources ==
    IsAnswer =>
        /\ IF EndsInApology THEN Answer.sources = <<>>
           ELSE IF op.name = "chat"
           THEN OneSourcePerPassage("Unknown") /\ SourcesCarryScore
           ELSE /\ OneSourcePerPassage("Policy Document")
                /\ \A i \in 1..Len(Answer.sources) :
                     DOMAIN Answer.sources[i] = {"title", "content"}
        /\ op.name = "chat" => op.ret.retrieved_docs_count = Len(op.ret.sources)
\* a chat answer with two sources, one of a passage longer than 200 characters without
\* label and score
C19_Witness ==
    /\ op.name = "chat" /\ ~EndsInApology
    /\ RetrievedDocs = <<Passage1, Passage2>>
    /\ op.ret.retrieved_docs_count = 2
    /\ Len(op.ret.sources[2].content) = SourceChars + 1
    /\ op.ret.sources[2].title = "Unknown" /\ op.ret.sources[2].score = 0
\* a query-handler answer whose sources have no score
C19_QueryWitness ==
    /\ op.name = "handle_query" /\ IsAnswer /\ ~EndsInApology
    /\ RetrievedDocs = <<Passage1, Passage2>>

\* word occurs in text, character by character from some position on
Occurs(word, text) ==
    \E i \in 1..Len(text) :
        /\ i + Len(word) - 1 <= Len(text)
        /\ \A j \in 1..Len(word) : text[i + j - 1] = word[j]
\* the keyword groups in their fixed order
KeywordGroups ==
    << {W_deductible, W_pay, W_cost}, {W_rental, W_car, W_replacement},
       {W_claim, W_file, W_accident}, {W_coverage, W_covered, W_include} >>
\* the groups with a keyword in the lower-cased query of the operation
GroupsHit ==
    {g \in 1..Len(KeywordGroups) :
        \E w \in KeywordGroups[g] : Occurs(w, StrLower(op.args.query))}
FirstGroupHit == IF GroupsHit = {} THEN 0 ELSE CHOOSE g \in GroupsHit : \A h \in GroupsHit : g <= h
IsJohnDoe == Occurs(JohnDoe, op.args.username)

\* C20: MockInsuranceAssistant.generate_response answers by the first keyword group,
\* in the order {deductible, pay, cost}, {rental, car, replacement}, {claim, file,
\* accident}, {coverage, covered, include}, that has a keyword as a substring of the
\* lower-cased query, and with the default answer when no group has one; the
\* deductible and rental amounts are $500 and $30 when the username contains john_doe,
\* $250 and $50 otherwise.
C20_KeywordGroups ==
    op.name = "generate_response" =>
        op.ret.response =
            CASE FirstGroupHit = 1 ->
                    MOCK_KB_RESPONSES.deductible[IF IsJohnDoe THEN "$500" ELSE "$250"]
              [] FirstGroupHit = 2 ->
                    MOCK_KB_RESPONSES.rental[IF IsJohnDoe THEN "$30" ELSE "$50"]
              [] FirstGroupHit = 3 -> MOCK_KB_RESPONSES.claim
              [] FirstGroupHit = 4 -> MOCK_KB_RESPONSES.coverage
              [] OTHER -> MOCK_KB_RESPONSES.default
\* "scarce repay" from john_smith: car is inside the first word, pay inside the second;
\* the first group wins and the amount is $250
C20_Witness ==
    /\ op.name = "generate_response"
    /\ op.args.query = <<"s", "c", "a", "r", "c", "e", " ", "r", "e", "p", "a", "y">>
    /\ ~IsJohnDoe
    /\ GroupsHit = {1, 2}
    /\ op.ret.response = MOCK_KB_RESPONSES.deductible["$250"]
\* "hello" from xjohn_doe: no group, the default answer
C20_DefaultWitness ==
    /\ op.name = "generate_response" /\ GroupsHit = {} /\ IsJohnDoe
    /\ op.args.username # JohnDoe
    /\ op.ret.response = MOCK_KB_RESPONSES.default

\* a chat call answered by _generate_demo_response
IsDemoAnswer == op.name = "chat" /\ ~connected /\ op.ret.model_used = "Demo Mode"
\* the keys of demo_responses, by position, that the lower-cased query contains
KeysHit == {i \in 1..Len(demo_keys) : Occurs(KeyChars[demo_keys[i]], StrLower(op.args.query))}
FirstKeyHit == demo_keys[CHOOSE i \in KeysHit : \A j \in KeysHit : i <= j]

\* C21: in demo mode a query that contains none of the keywords deductible, rental,
\* accident, claim, coverage gets the generic message "I'd be happy to help with your
\* insurance question. ..."; a query that contains a keyword gets the canned answer of
\* the first keyword, in that order, that the lower-cased query contains.
C21_Original ==
    IsDemoAnswer =>
        op.ret.response = IF KeysHit = {} THEN DemoGeneric ELSE demo_responses[FirstKeyHit]

\* What the code does (C21): a query without a keyword gets the canned answer of
\* 'deductible', and the generic message is never returned.
C21_DeductibleByDefault ==
    IsDemoAnswer =>
        /\ op.ret.response =
              IF KeysHit = {} THEN demo_responses.deductible ELSE demo_responses[FirstKeyHit]
        /\ op.ret.response # DemoGeneric

\* a demo answer to a query without a keyword; one to "claims Rental", whose first
\* keyword in the order of the keys is rental
C21_Witness ==
    /\ IsDemoAnswer /\ KeysHit = {}
    /\ op.ret.response = demo_responses.deductible
C21_OrderWitness ==
    /\ IsDemoAnswer /\ KeysHit = {2, 4}
    /\ op.args.query[1] = "c"
    /\ op.ret.response = demo_responses.rental

\* the status request of setup_knowledge_base whose get_ingestion_job call failed
SetupFetchFailed ==
    /\ app = "setup_kb" /\ op.name = "handle_policy_ingestion"
    /\ op.args.action = "status" /\ Failed(StatusApi)

\* C22: in setup_knowledge_base, when fetching the ingestion job status fails, polling
\* stops: the loop is left through the 'Failed to check status' branch instead of
\* sleeping and fetching again.
C22_Original == SetupFetchFailed => pc = "after_loop"

\* What the code does (C22): a failed status fetch is answered with success and the
\* status 'ERROR', which is not terminal, so the loop sleeps and fetches again.
C22_FailurePollsOn ==
    SetupFetchFailed =>
        /\ op.ret.success /\ op.ret.job_status.status = "ERROR"
        /\ status = "ERROR" /\ pc \in {"sleep", "status"}

\* a failed fetch, the sleep after it, and the next fetch
C22_Witness ==
    /\ SetupFetchFailed
    /\ \E i \in 1..(Len(pollLog) - 2) :
         pollLog[i] = Fetch("ERROR") /\ pollLog[i + 1] = Sleep30 /\ IsFetch(pollLog[i + 2])

\* a request to the upload API that stored a policy for username u
IsPolicyUploadFor(u) ==
    /\ pc = "idle" /\ pc' = "returned" /\ op'.name = "handle_upload"
    /\ Get(op'.args, "action", "upload") = "upload"
    /\ Get(op'.args, "username", None) = u
    /\ Get(op'.args, "category", "general") = "customer_policy"
    /\ Get(op'.ret, "success", FALSE)
\* the text of an upload: its bytes decoded as UTF-8 (the handler drops the bytes that
\* are not UTF-8 from a file that is not .txt, and refuses them in a .txt file)
UploadedText(o) ==
    [i \in 1..Len(SelectSeq(o.args.file_content, IsUtf8)) |->
        SelectSeq(o.args.file_content, IsUtf8)[i][2]]
\* what a query for u reads: the object stored at customer_policy/u.txt, if any
PolicyRead(store, u) ==
    IF CustomerPolicyKey(u) \in DOMAIN store THEN <<store[CustomerPolicyKey(u)]>> ELSE <<>>
\* a query for u whose policy fetch succeeded and that came to compose its prompt
IsQueryFor(u) ==
    /\ pc = "idle" /\ pc' = "returned" /\ op'.name = "handle_query"
    /\ Get(op'.args, "username", "john_doe") = u
    /\ op'.calls # <<>> /\ op'.calls[1].ok /\ op'.composed # <<>>
\* upload and query use the same key, and the query gets the stored text
UploadThenQuery(u) ==
    /\ IsPolicyUploadFor(u) =>
           /\ op'.ret.s3_key = CustomerPolicyKey(u)
           /\ PolicyRead(s3', u) = <<Encode(UploadedText(op'))>>
    /\ IsQueryFor(u) =>
           /\ op'.calls[1] = Call("s3.get_object", CustomerPolicyKey(u), TRUE)
           /\ PolicyRead(s3, u) = <<Encode(op'.composed[1].customer_policy)>>
\* a put through a presigned URL that was issued for another username than u and whose
\* key spells customer_policy/u.txt
IsPresignedPutOnto(u) ==
    /\ pc = "returned" /\ pc' = "returned" /\ s3' # s3
    /\ op.name = "handle_upload" /\ Get(op.args, "action", "upload") = "get_upload_url"
    /\ op.args.username # u
    /\ KeyOfUrl(op.ret.upload_url) = CustomerPolicyKey(u)

\* C23: upload and query agree on the customer policy key: a policy upload for u is
\* stored at customer_policy/u.txt, a query for u reads that key and gets exactly the
\* text stored there, and every other step of the API (an upload for another username,
\* a general upload, an upload through a presigned URL) leaves the policy read for u
\* unchanged.
C23_Original ==
    [][app = "api" =>
        \A u \in Usernames :
            /\ UploadThenQuery(u)
            /\ ~IsPolicyUploadFor(u) => PolicyRead(s3', u) = PolicyRead(s3, u)]_vars

\* What the code does (C23): as C23, except for a put through a presigned URL, whose
\* key customer_policy/<username>_<filename> can spell the policy key of another
\* customer.
C23_UpToPresignedKeys ==
    [][app = "api" =>
        \A u \in Usernames :
            /\ UploadThenQuery(u)
            /\ ~IsPolicyUploadFor(u) /\ ~IsPresignedPutOnto(u)
                   => PolicyRead(s3', u) = PolicyRead(s3, u)]_vars

\* the policy of john_doe was replaced through the URL presigned for john and doe.txt
C23_Witness ==
    /\ op.name = "handle_upload" /\ Get(op.args, "action", "upload") = "get_upload_url"
    /\ op.args.username = "john" /\ op.args.filename = <<"doe", ".txt">>
    /\ PolicyRead(s3, "john_doe") = <<PutBody>>
\* a query that reads the text a policy upload stored for its username
C23_AgreeWitness ==
    /\ op.name = "handle_query" /\ op.composed # <<>>
    /\ op.composed[1].customer_policy = <<"policyB">>
    /\ Get(op.args, "username", "john_doe") = "alice"

\* the call of o to api failed
FailedIn(o, api) == \E i \in 1..Len(o.calls) : o.calls[i].api = api /\ ~o.calls[i].ok
InvokeApi == "bedrock-runtime.invoke_model"
LastTurn(history) == history[Len(history)]

\* C24: a chat call that takes the error path (the apology answer with model_used
\* 'Error') leaves conversation_history exactly as it was; a failed retrieval or a
\* failed generation does not take that path: the turn is appended, with an empty
\* source list after a failed retrieval and with the apology of generate_response after
\* a failed generation.
C24_ErrorPathKeepsHistory ==
    [][IsChatStep =>
        /\ EndsInErrorReturn(op') =>
              /\ conversation_history' = conversation_history
              /\ op'.ret.response = ChatApology /\ op'.ret.sources = <<>>
        /\ FailedIn(op', RetrieveApi) \/ FailedIn(op', InvokeApi) =>
              /\ ~EndsInErrorReturn(op')
              /\ Len(conversation_history') = Len(conversation_history) + 1
              /\ SubSeq(conversation_history', 1, Len(conversation_history)) = conversation_history
        /\ FailedIn(op', RetrieveApi) => LastTurn(conversation_history').sources = <<>>
        /\ FailedIn(op', InvokeApi) => LastTurn(conversation_history').response = RagApology]_vars

\* the error return after an earlier turn, which is still the whole history
C24_Witness ==
    /\ op.name = "chat" /\ pc = "returned" /\ EndsInErrorReturn(op)
    /\ Len(conversation_history) = 1
    /\ conversation_history[1].query # op.args.query
\* a turn appended after both the retrieval and the generation failed
C24_FailureWitness ==
    /\ op.name = "chat" /\ pc = "returned"
    /\ FailedIn(op, RetrieveApi) /\ FailedIn(op, InvokeApi)
    /\ conversation_history # <<>>
    /\ LastTurn(conversation_history) = TurnOf(op)
    /\ op.ret.sources = <<>> /\ op.ret.response = RagApology

IsIngestionRequest == op.name = "handle_policy_ingestion"
IngestionAction == Get(op.args, "action", "ingest")
\* the put_object calls of the operation that succeeded
FilesUploaded == {i \in 1..Len(op.calls) : op.calls[i].api = PutApi /\ op.calls[i].ok}
IsError(code) == DOMAIN op.ret = {"error", "status"} /\ op.ret.status = code
Succeeded(api) == \E i \in 1..Len(op.calls) : op.calls[i].api = api /\ op.calls[i].ok

\* C25: handle_policy_ingestion with action 'ingest' starts no ingestion job when no
\* file was uploaded and returns an error with status 400; it returns an error with
\* status 500 and no job_id when the job start fails; it returns success, with a
\* non-empty job_id, exactly when at least one file was uploaded and the job start
\* succeeded. Action 'status' without a job_id and any unknown action return an error
\* with status 400 and make no external call.
C25_IngestionStatusCodes ==
    IsIngestionRequest =>
        CASE IngestionAction = "ingest" ->
                /\ FilesUploaded = {} => ~Called(StartApi) /\ IsError(400)
                /\ FilesUploaded # {} /\ Failed(StartApi) => IsError(500)
                /\ Get(op.ret, "success", FALSE) <=> FilesUploaded # {} /\ Succeeded(StartApi)
                /\ Get(op.ret, "success", FALSE) =>
                       /\ op.ret.job_id \notin {"", None}
                       /\ Len(op.ret.uploaded_files) = Cardinality(FilesUploaded)
          [] IngestionAction = "status" ->
                Get(op.args, "job_id", None) \in {"", None} => IsError(400) /\ op.calls = <<>>
          [] OTHER -> IsError(400) /\ op.calls = <<>>

\* a file was uploaded and the job start failed: status 500, no job_id
C25_Witness ==
    /\ IsIngestionRequest /\ IngestionAction = "ingest"
    /\ FilesUploaded # {} /\ Failed(StartApi) /\ IsError(500)
\* every put failed: status 400 and no job start
C25_NoFileWitness ==
    /\ IsIngestionRequest /\ IngestionAction = "ingest"
    /\ Failed(PutApi) /\ FilesUploaded = {} /\ IsError(400)
\* a status request without job_id, and an unknown action
C25_StatusWitness ==
    /\ IsIngestionRequest /\ IngestionAction = "status" /\ "job_id" \notin DOMAIN op.args
    /\ IsError(400)
C25_UnknownWitness == IsIngestionRequest /\ IngestionAction = "delete" /\ IsError(400)

IsQueryRequest == op.name = "handle_query"
\* the request has no query, or an empty one
QueryMissing == "query" \notin DOMAIN op.args \/ op.args.query = <<>>

\* C26: handle_query with a missing or empty query returns the error 'Query is
\* required' with status 400 and makes no external call (no policy fetch, no retrieval,
\* no generation); with a query and without a username it works for 'john_doe': the
\* policy it fetches is customer_policy/john_doe.txt.
C26_QueryRequired ==
    IsQueryRequest =>
        IF QueryMissing
        THEN /\ op.ret = [error |-> "Query is required", status |-> 400]
             /\ op.calls = <<>> /\ op.composed = <<>>
        ELSE /\ op.calls # <<>>
             /\ op.calls[1].api = "s3.get_object"
             /\ "username" \notin DOMAIN op.args =>
                    op.calls[1].arg = <<"customer_policy/", "john_doe", ".txt">>

\* a request without a query, and one with an empty query
C26_Witness ==
    /\ IsQueryRequest /\ "query" \notin DOMAIN op.args
    /\ op.ret.status = 400 /\ op.calls = <<>>
C26_EmptyWitness ==
    /\ IsQueryRequest /\ "query" \in DOMAIN op.args /\ op.args.query = <<>>
    /\ op.ret.status = 400
\* a request without a username that read the policy of john_doe
C26_DefaultWitness ==
    /\ IsQueryRequest /\ ~QueryMissing /\ "username" \notin DOMAIN op.args
    /\ op.calls[1] = Call("s3.get_object", <<"customer_policy/", "john_doe", ".txt">>, TRUE)
    /\ op.composed # <<>>
    /\ op.composed[1].customer_policy = Decode(s3[<<"customer_policy/", "john_doe", ".txt">>]).ret

\* the answer of generate_response was not generated: a call failed or a step raised
GenerationFailed == ~Succeeded(RagGenerateApi)

\* C27: for every non-empty query handle_query returns success true, also when the
\* response was not generated: data then holds the apology response, an empty source
\* list and an error field, and otherwise the generated text without an error field.
C27_SuccessAlways ==
    IsQueryRequest /\ ~QueryMissing =>
        /\ ~op.raised /\ op.ret.success
        /\ IF GenerationFailed
           THEN /\ DOMAIN op.ret.data = {"response", "sources", "error"}
                /\ op.ret.data.response = QueryApology
                /\ op.ret.data.sources = <<>>
           ELSE /\ "error" \notin DOMAIN op.ret.data
                /\ op.ret.data.response \in Answers

\* success true with the apology, after passages were retrieved and the generation
\* call failed
C27_Witness ==
    /\ IsQueryRequest /\ ~QueryMissing /\ op.ret.success
    /\ Succeeded(RetrieveApi) /\ RetrievedDocs # <<>> /\ Failed(RagGenerateApi)
    /\ op.ret.data.response = QueryApology /\ "error" \in DOMAIN op.ret.data

IsUploadStep ==
    /\ pc = "idle" /\ pc' = "returned" /\ op'.name = "handle_upload"
    /\ Get(op'.args, "action", "upload") = "upload"
IsErrorOf(o, code) == DOMAIN o.ret = {"error", "status"} /\ o.ret.status = code
\* file_content or filename is missing or empty
UploadIncomplete(o) ==
    \/ Get(o.args, "file_content", <<>>) = <<>>
    \/ Get(o.args, "filename", <<>>) = <<>>
\* a username is given and category equals 'customer_policy'
IsCustomerUpload(o) ==
    /\ Get(o.args, "username", None) \notin {None, ""}
    /\ Get(o.args, "category", "general") = "customer_policy"
\* the key the request is stored at
UploadKeyFits(o, key) ==
    IF IsCustomerUpload(o) THEN key = <<"customer_policy/", o.args.username, ".txt">>
    ELSE /\ IsUploadKey(key) /\ key[1] = "uploads/"
         /\ key[2] = Get(o.args, "category", "general")
         /\ SubSeq(key, 6, Len(key)) = o.args.filename
\* exactly one write, to the key of the request; status 500 when it failed, and the
\* object stored when it succeeded
OneWrite(o, before, after) ==
    /\ Len(o.calls) = 1 /\ o.calls[1].api = PutApi /\ UploadKeyFits(o, o.calls[1].arg)
    /\ IF o.calls[1].ok
       THEN /\ Get(o.ret, "success", FALSE) /\ o.ret.s3_key = o.calls[1].arg
            /\ DOMAIN after = DOMAIN before \cup {o.calls[1].arg}
            /\ \A k \in DOMAIN before : k # o.calls[1].arg => after[k] = before[k]
       ELSE IsErrorOf(o, 500) /\ after = before
\* a customer policy in a .txt file whose bytes are not UTF-8
IsUndecodable(o) ==
    /\ IsCustomerUpload(o) /\ EndsWith(o.args.filename, ".txt")
    /\ \E i \in 1..Len(o.args.file_content) : ~IsUtf8(o.args.file_content[i])

C28_GeneralWitness ==
    /\ op.name = "handle_upload" /\ Get(op.args, "action", "upload") = "upload"
    /\ ~UploadIncomplete(op) /\ Get(op.args, "username", None) = "john_doe"
    /\ ~IsCustomerUpload(op) /\ Get(op.ret, "success", FALSE)
    /\ op.ret.s3_key \in DOMAIN s3 /\ IsUploadKey(op.ret.s3_key)

IsProcessing == op.name = "process_uploaded_files"
FilesGiven == op.args.uploaded_files
\* the entries of a result list that record the file: its name, or its name followed
\* by the text of an exception
RecordsOf(file, list) ==
    {i \in 1..Len(list) : list[i] \in {file.name, file.name \o <<": ", "exception">>}}
TimesRecorded(file) ==
    Cardinality(RecordsOf(file, op.ret.successful)) + Cardinality(RecordsOf(file, op.ret.failed))
\* the failed entries written by the except branch
CaughtEntries == {i \in 1..Len(op.ret.failed) : EndsWith(op.ret.failed[i], "exception")}

\* C29: after process_uploaded_files over n files every input file is recorded in
\* exactly one of the lists successful and failed, len(successful) + len(failed) = n
\* and total_processed = n, also when processing of a file raises an exception.
C29_Original ==
    IsProcessing =>
        /\ \A i \in 1..Len(FilesGiven) : TimesRecorded(FilesGiven[i]) = 1
        /\ Len(op.ret.successful) + Len(op.ret.failed) = Len(FilesGiven)
        /\ op.ret.total_processed = Len(FilesGiven)

\* What the code does (C29): every file is recorded once or twice, total_processed
\* counts the records that were not written by the except branch, and a file is in
\* both lists only through the except branch.
C29_CountsUncaught ==
    IsProcessing =>
        /\ \A i \in 1..Len(FilesGiven) : TimesRecorded(FilesGiven[i]) \in {1, 2}
        /\ op.ret.total_processed =
              Len(op.ret.successful) + Len(op.ret.failed) - Cardinality(CaughtEntries)
        /\ op.ret.total_processed <= Len(FilesGiven)
        /\ \A i \in 1..Len(FilesGiven) :
              RecordsOf(FilesGiven[i], op.ret.successful) # {}
                  => RecordsOf(FilesGiven[i], op.ret.failed) \subseteq CaughtEntries

\* two files whose temporary files could not be written: both failed, none processed
C29_Witness ==
    /\ IsProcessing /\ Len(FilesGiven) = 2
    /\ Len(op.ret.failed) = 2 /\ op.ret.total_processed = 0
\* a file that is in both lists: stored, then os.unlink raised
C29_TwiceWitness ==
    /\ IsProcessing
    /\ \E i \in 1..Len(FilesGiven) : TimesRecorded(FilesGiven[i]) = 2
    /\ op.calls # <<>> /\ op.calls[1].ok

DemoMode == app = "rag" /\ ~connected
CannedAnswers == {demo_responses[k] : k \in DOMAIN demo_responses} \cup {DemoGeneric}

\* C30: while connected is false no operation of the assistant issues an external call
\* and nothing is written to object storage, for any sequence of chat and upload
\* operations: a chat call gets the two demo passages of _get_demo_results and a
\* canned answer with model_used 'Demo Mode', and process_uploaded_files records each
\* file by whether text could be extracted from it.
C30_DemoModeIsLocal ==
    DemoMode =>
        /\ op.calls = <<>> /\ s3 = <<>>
        /\ op.name = "chat" =>
              /\ op.docs = <<_get_demo_results(op.args.query)>>
              /\ op.ret.retrieved_docs_count = 2 /\ Len(op.ret.sources) = 2
              /\ op.ret.model_used = "Demo Mode"
              /\ op.ret.response \in CannedAnswers
        /\ op.name = "process_uploaded_files" =>
              \A i \in 1..Len(op.ret.successful) :
                  \E j \in 1..Len(FilesGiven) :
                      FilesGiven[j].name = op.ret.successful[i] /\ FilesGiven[j].text # <<>>

\* demo mode, after a chat call and then an upload that recorded a file as successful
C30_Witness ==
    /\ DemoMode /\ conversation_history # <<>>
    /\ conversation_history[1].sources[2].title = "Coverage Details"
    /\ op.name = "process_uploaded_files"
    /\ op.ret.successful # <<>> /\ op.ret.failed # <<>>

====
